---- MODULE Spec2Model ----
(***************************************************************************)
(* Model of the workout ingestion / consolidation engine, the workout      *)
(* aggregate, the social graph and the notification fan-out of the         *)
(* workoutai backend (app/crud/workout.py, social.py, notification.py,     *)
(* user.py, admin.py).                                                     *)
(*                                                                         *)
(* Time is counted in minutes since midnight UTC of day 0.  A handler      *)
(* runs against a SQLAlchemy session: `work` is what the session sees      *)
(* (pending changes included), `comm` is what is committed.  commit()      *)
(* copies work to comm, rollback() copies comm to work.  What a handler    *)
(* leaves in `comm` is the state the next request sees.                    *)
(***************************************************************************)
EXTENDS Integers, Sequences, FiniteSets, TLC

VARIABLES
    now,            \* current time, minutes
    workouts,       \* rows of table workouts
    exercise_sets,  \* rows of table exercise_sets
    cardio_sessions,\* rows of table cardio_sessions
    notifications,  \* rows of table notifications
    friendships,    \* rows of table friendships
    close_friends,  \* rows of table close_friends: <<owner_id, friend_id>>
    history,        \* users' metric history lists: user -> field -> Seq
    rubbish,        \* app_metrics.rubbish_voice_logs per user
    interactions,   \* rows of table user_interactions
    counters,       \* users.nudge_count and users.spot_count per user
    pushes,         \* number of push sends attempted, per recipient
    nextId,         \* source of fresh uuid4 values
    pcs,            \* position of each concurrent request (race model)
    served,         \* number of steps taken so far
    last            \* the call made by the last step and its outcome

vars == <<now, workouts, exercise_sets, cardio_sessions, notifications,
          friendships, close_friends, history, rubbish, interactions,
          counters, pushes, nextId, pcs, served, last>>

None == "None"   \* None in a string-valued field
NoNum == -1       \* None in a number-, date- or time-valued field

\* ---------------------------------------------------------------- bounds
MaxDay == 1        \* days 0..MaxDay are distinguished
MaxCalls == 2      \* requests and clock steps in a behaviour

\* ------------------------------------------------------- program constants
WORKOUT_CONSOLIDATION_BUFFER_MINUTES == 30
MinutesPerDay == 1440
NoonMinutes == 720

Users == {1, 2, 3}
Ghost == 9
Visibilities == {"private", "close_friends", "public"}
Statuses == {"planned", "completed"}
MetricFields == <<"weight", "bench_1rm", "squat_1rm", "deadlift_1rm", "fat_percentage">>

\* datetime(d.year, d.month, d.day, 12, 0, 0, tzinfo=utc)
NoonUTC(d) == d * MinutesPerDay + NoonMinutes
\* datetime.date()
DateOf(t) == t \div MinutesPerDay

\* the instants the model distinguishes: 30 and 1 minutes before noon of day
\* 0, noon of day 0, and noon of the later days
Offsets == {0, 29, 30}
TimePoints == {NoonUTC(0) - 30 + o : o \in Offsets}
              \cup {NoonUTC(d) : d \in 1..MaxDay}

\* ------------------------------------------------------------- session
DB == [workouts |-> workouts, exercise_sets |-> exercise_sets,
       cardio_sessions |-> cardio_sessions, notifications |-> notifications,
       friendships |-> friendships, close_friends |-> close_friends,
       history |-> history, rubbish |-> rubbish,
       interactions |-> interactions, counters |-> counters]

\* A request's session: fails is the set of ordinals of the commits of this
\* request that the store rejects.
Begin(fails) ==
    [work |-> DB, comm |-> DB, k |-> 0, fails |-> fails, pushes |-> pushes,
     nid |-> nextId, raised |-> FALSE, ret |-> None]

CommitOk(s) == (s.k + 1) \notin s.fails

\* try: db.commit()  except: db.rollback()   (the caller decides on re-raise)
Commit(s) ==
    IF CommitOk(s)
    THEN [s EXCEPT !.comm = s.work, !.k = s.k + 1]
    ELSE [s EXCEPT !.work = s.comm, !.k = s.k + 1]

\* try: db.commit()  except: db.rollback(); raise e
CommitOrRaise(s) ==
    IF CommitOk(s)
    THEN [s EXCEPT !.comm = s.work, !.k = s.k + 1]
    ELSE [s EXCEPT !.work = s.comm, !.k = s.k + 1, !.raised = TRUE]

\* db.commit() outside any try: the exception propagates, nothing is rolled
\* back explicitly; the session is discarded with the request.
CommitBare(s) ==
    IF CommitOk(s)
    THEN [s EXCEPT !.comm = s.work, !.k = s.k + 1]
    ELSE [s EXCEPT !.k = s.k + 1, !.raised = TRUE]

\* ------------------------------------------------------------ notification
send_push_notification(s, recipient_id) ==
    [s EXCEPT !.pushes[recipient_id] = @ + 1]

create_notification(s, recipient_id, sender_id, type, reference_id) ==
    LET db_notif == [id |-> s.nid, recipient_id |-> recipient_id,
                     sender_id |-> sender_id, type |-> type,
                     reference_id |-> reference_id, is_read |-> FALSE]
        s1 == [s EXCEPT !.work.notifications = @ \cup {db_notif},
                        !.nid = @ + 1]
        s2 == Commit(s1)
    IN  send_push_notification(s2, recipient_id)

RECURSIVE NotifyAll(_, _, _, _, _)
NotifyAll(s, recipients, sender_id, type, reference_id) ==
    IF recipients = <<>> THEN s
    ELSE NotifyAll(create_notification(s, Head(recipients), sender_id, type,
                                       reference_id),
                   Tail(recipients), sender_id, type, reference_id)

\* ------------------------------------------------------------ social reads
\* rows of a table in scan order (insertion order of their ids)
RECURSIVE RowsInOrder(_)
RowsInOrder(rows) ==
    IF rows = {} THEN <<>>
    ELSE LET r == CHOOSE x \in rows : \A y \in rows : x.id <= y.id
         IN  <<r>> \o RowsInOrder(rows \ {r})

RECURSIVE SetInOrder(_)
SetInOrder(S) ==
    IF S = {} THEN <<>>
    ELSE LET m == CHOOSE x \in S : \A y \in S : x <= y
         IN  <<m>> \o SetInOrder(S \ {m})

get_friends_id_list(db, user_id) ==
    LET rows == RowsInOrder({f \in db.friendships :
                    /\ (f.requester_id = user_id \/ f.addressee_id = user_id)
                    /\ f.status = "accepted"})
    IN  [i \in 1..Len(rows) |->
            IF rows[i].requester_id = user_id THEN rows[i].addressee_id
            ELSE rows[i].requester_id]

get_close_friend_ids(db, user_id) ==
    SetInOrder({c[2] : c \in {x \in db.close_friends : x[1] = user_id}})

\* the id of the user row, NoNum when the query finds none
get_user(db, id) == IF id \in Users THEN id ELSE NoNum

\* ------------------------------------------------------------ user metrics
\* mutant: a value already recorded under the same date is not recorded again
update_history_tracked_field_Dedup(s, db_user, updated_value, date_str, field_type) ==
    LET new_entry == [date |-> date_str, value |-> updated_value]
        current_history == s.work.history[db_user][field_type]
        s1 == [s EXCEPT !.work.history[db_user][field_type] =
                            IF \E i \in 1..Len(current_history) : current_history[i] = new_entry
                            THEN @ ELSE Append(@, new_entry)]
    IN  CommitOrRaise(s1)

\* crud/user.py update_history_tracked_field
update_history_tracked_field(s, db_user, updated_value, date_str, field_type) ==
    LET new_entry == [date |-> date_str, value |-> updated_value]
        s1 == [s EXCEPT !.work.history[db_user][field_type] =
                            Append(@, new_entry)]
    IN  CommitOrRaise(s1)

\* crud/admin.py log_rubbish_voice_log: every failure is swallowed
log_rubbish_voice_log(s, user_id) ==
    Commit([s EXCEPT !.work.rubbish[user_id] = @ + 1])

\* ------------------------------------------------------- workout from a log
\* Python truthiness of an optional number and of an optional string
TruthyNum(v) == v # NoNum /\ v # 0
TruthyStr(v) == v # <<>>

ExerciseSetFromLog(id, ai_set, workout_id) ==
    [id |-> id, exercise_name |-> ai_set.exercise_name,
     set_number |-> ai_set.sets, reps |-> ai_set.reps,
     weight |-> ai_set.weight, weight_unit |-> ai_set.weight_unit,
     workout_id |-> workout_id]

CardioSessionFromLog(id, ai_cardio, workout_id) ==
    [id |-> id, name |-> ai_cardio.exercise_name,
     duration_minutes |-> ai_cardio.duration_minutes,
     speed |-> ai_cardio.speed, pace |-> ai_cardio.pace,
     pace_unit |-> ai_cardio.pace_unit, distance |-> ai_cardio.distance,
     distance_unit |-> ai_cardio.distance_unit, laps |-> ai_cardio.laps,
     workout_id |-> workout_id]

RECURSIVE AddLogSets(_, _, _)
AddLogSets(s, entries, workout_id) ==
    IF entries = <<>> THEN s
    ELSE AddLogSets(
            [s EXCEPT !.work.exercise_sets =
                          @ \cup {ExerciseSetFromLog(s.nid, Head(entries), workout_id)},
                      !.nid = @ + 1],
            Tail(entries), workout_id)

RECURSIVE AddLogCardio(_, _, _)
AddLogCardio(s, entries, workout_id) ==
    IF entries = <<>> THEN s
    ELSE AddLogCardio(
            [s EXCEPT !.work.cardio_sessions =
                          @ \cup {CardioSessionFromLog(s.nid, Head(entries), workout_id)},
                      !.nid = @ + 1],
            Tail(entries), workout_id)

\* mutant: a timestamp equal to the current time counts as future
StatusAt_NotStrict(created_at, t) ==
    IF created_at # NoNum /\ created_at >= t THEN "planned" ELSE "completed"

\* status of a workout created with timestamp created_at at time t
StatusAt(created_at, t) ==
    IF created_at # NoNum /\ created_at > t THEN "planned" ELSE "completed"

\* the fan-out of a freshly created workout
ShareFreshWorkout(s, log, user_id, workout_id) ==
    IF log.visibility = "public"
    THEN NotifyAll(s, get_friends_id_list(s.work, user_id), user_id,
                   "WORKOUT_SHARE", workout_id)
    ELSE IF log.visibility = "close_friends"
    THEN NotifyAll(s, get_close_friend_ids(s.work, user_id), user_id,
                   "WORKOUT_SHARE", workout_id)
    ELSE s

create_workout_from_log(s, log, user_id, created_at) ==
    LET status == StatusAt(created_at, now)
        db_workout == [id |-> s.nid, user_id |-> user_id, notes |-> log.note,
                       workout_type |-> log.workout_type,
                       created_at |-> created_at,
                       visibility |-> log.visibility, status |-> status]
        s1 == CommitOrRaise([s EXCEPT !.work.workouts = @ \cup {db_workout},
                                      !.nid = @ + 1])
        s2 == AddLogCardio(AddLogSets(s1, log.sets, db_workout.id),
                           log.cardio, db_workout.id)
        s3 == CommitOrRaise(s2)
    IN  IF s1.raised THEN s1
        ELSE IF s3.raised THEN s3
        ELSE ShareFreshWorkout(s3, log, user_id, db_workout.id)

UpdateMarker == "\n\n[Update]: "

\* mutant: the marker is written also before the first note
AppendNote_AlwaysMarker(notes, note) ==
    IF TruthyStr(note) THEN notes \o <<UpdateMarker>> \o note ELSE notes

AppendNote(notes, note) ==
    IF TruthyStr(note)
    THEN IF TruthyStr(notes) THEN notes \o <<UpdateMarker>> \o note ELSE note
    ELSE notes

\* mutant: a consolidation announces the workout like a creation does
append_to_existing_workout_Sharing(s, workout_id, log) ==
    LET s1 == [s EXCEPT !.work.workouts =
                  {IF w.id = workout_id
                   THEN [w EXCEPT !.notes = AppendNote(w.notes, log.note)]
                   ELSE w : w \in @}]
        s2 == AddLogCardio(AddLogSets(s1, log.sets, workout_id),
                           log.cardio, workout_id)
        s3 == CommitOrRaise(s2)
        owner == (CHOOSE w \in s.work.workouts : w.id = workout_id).user_id
    IN  IF s3.raised THEN s3 ELSE ShareFreshWorkout(s3, log, owner, workout_id)

\* mutant: a workout that receives a log counts as done
append_to_existing_workout_Completing(s, workout_id, log) ==
    LET s1 == [s EXCEPT !.work.workouts =
                  {IF w.id = workout_id
                   THEN [w EXCEPT !.notes = AppendNote(w.notes, log.note),
                                  !.status = "completed"]
                   ELSE w : w \in @}]
        s2 == AddLogCardio(AddLogSets(s1, log.sets, workout_id),
                           log.cardio, workout_id)
    IN  CommitOrRaise(s2)

append_to_existing_workout(s, workout_id, log) ==
    LET s1 == [s EXCEPT !.work.workouts =
                  {IF w.id = workout_id
                   THEN [w EXCEPT !.notes = AppendNote(w.notes, log.note)]
                   ELSE w : w \in @}]
        s2 == AddLogCardio(AddLogSets(s1, log.sets, workout_id),
                           log.cardio, workout_id)
    IN  CommitOrRaise(s2)

\* append_to_existing_workout as a request runs it on the workout object it
\* loaded earlier: the new note is built from the notes the object holds, and
\* the flush writes the notes column of that row only when it was assigned
append_to_loaded_workout(s, workout, log) ==
    LET s1 == [s EXCEPT !.work.workouts =
                  {IF w.id = workout.id /\ TruthyStr(log.note)
                   THEN [w EXCEPT !.notes = AppendNote(workout.notes, log.note)]
                   ELSE w : w \in @}]
        s2 == AddLogCardio(AddLogSets(s1, log.sets, workout.id),
                           log.cardio, workout.id)
    IN  CommitOrRaise(s2)

\* ------------------------------------------------------- manage_voice_log
RECURSIVE UpdateMetrics(_, _, _, _, _)
UpdateMetrics(s, db_user, log, date_str, i) ==
    IF i > Len(MetricFields) \/ s.raised THEN s
    ELSE LET f == MetricFields[i]
         IN  UpdateMetrics(
                IF TruthyNum(log.updated[f])
                THEN update_history_tracked_field(s, db_user, log.updated[f],
                                                  date_str, f)
                ELSE s,
                db_user, log, date_str, i + 1)

HasEntries(log) == Len(log.sets) > 0 \/ Len(log.cardio) > 0
HasMetrics(log) == \E i \in 1..Len(MetricFields) : TruthyNum(log.updated[MetricFields[i]])

\* mutant: planned workouts are passed over by the lookup
MostRecentWorkouts_Completed(db, user_id) ==
    {w \in db.workouts :
        /\ w.user_id = user_id /\ w.status = "completed"
        /\ \A v \in db.workouts :
              (v.user_id = user_id /\ v.status = "completed") => v.created_at <= w.created_at}

\* order_by(desc(created_at)).first(): any row with the largest timestamp
MostRecentWorkouts(db, user_id) ==
    {w \in db.workouts :
        /\ w.user_id = user_id
        /\ \A v \in db.workouts : v.user_id = user_id => v.created_at <= w.created_at}

\* mutants of the window test: the gap 0 excluded, the gap 30 included
InConsolidationWindow_Positive(diff) ==
    diff < WORKOUT_CONSOLIDATION_BUFFER_MINUTES /\ diff > 0

InConsolidationWindow_Inclusive(diff) ==
    diff <= WORKOUT_CONSOLIDATION_BUFFER_MINUTES /\ diff >= 0

InConsolidationWindow(diff) ==
    diff < WORKOUT_CONSOLIDATION_BUFFER_MINUTES /\ diff >= 0

\* mutant: the scheduled flag does not switch consolidation off
IngestEntries_IgnoringSchedule(s, log, user_id, logging_timestamp, is_future_workout, most_recent) ==
    IF /\ most_recent # {}
       /\ \A w \in most_recent :
              InConsolidationWindow(logging_timestamp - w.created_at)
    THEN append_to_existing_workout(s, (CHOOSE w \in most_recent : TRUE).id, log)
    ELSE create_workout_from_log(s, log, user_id, logging_timestamp)

\* most_recent holds the row the query returned (empty when the user has none)
IngestEntries(s, log, user_id, logging_timestamp, is_future_workout, most_recent) ==
    IF /\ ~is_future_workout
       /\ most_recent # {}
       /\ \A w \in most_recent :
              InConsolidationWindow(logging_timestamp - w.created_at)
    THEN append_to_existing_workout(s, (CHOOSE w \in most_recent : TRUE).id, log)
    ELSE create_workout_from_log(s, log, user_id, logging_timestamp)

\* mutant: a log stamped later than the current time counts as future
manage_voice_log_FutureByClock(s, voice_log, user_id, created_at, most_recent) ==
    LET logging_timestamp ==
            IF voice_log.scheduled_date # NoNum
            THEN NoonUTC(voice_log.scheduled_date)
            ELSE IF created_at # NoNum THEN created_at ELSE now
        is_future_workout == voice_log.scheduled_date # NoNum \/ logging_timestamp > now
        db_user == get_user(s.work, user_id)
        date_str == DateOf(logging_timestamp)
        s1 == IF ~is_future_workout
              THEN UpdateMetrics(s, db_user, voice_log, date_str, 1)
              ELSE s
        s2 == IF HasEntries(voice_log)
              THEN IngestEntries(s1, voice_log, user_id, logging_timestamp,
                                 is_future_workout, most_recent)
              ELSE s1
        s3 == IF ~is_future_workout /\ ~HasMetrics(voice_log) /\ ~HasEntries(voice_log)
              THEN log_rubbish_voice_log(s2, user_id)
              ELSE s2
    IN  IF db_user = NoNum THEN s
        ELSE IF s1.raised THEN s1
        ELSE IF s2.raised THEN s2
        ELSE [s3 EXCEPT !.ret = voice_log.comment]

manage_voice_log(s, voice_log, user_id, created_at, most_recent) ==
    LET is_future_workout == voice_log.scheduled_date # NoNum
        logging_timestamp ==
            IF voice_log.scheduled_date # NoNum
            THEN NoonUTC(voice_log.scheduled_date)
            ELSE IF created_at # NoNum THEN created_at ELSE now
        db_user == get_user(s.work, user_id)
        date_str == DateOf(logging_timestamp)
        s1 == IF ~is_future_workout
              THEN UpdateMetrics(s, db_user, voice_log, date_str, 1)
              ELSE s
        s2 == IF HasEntries(voice_log)
              THEN IngestEntries(s1, voice_log, user_id, logging_timestamp,
                                 is_future_workout, most_recent)
              ELSE s1
        s3 == IF ~is_future_workout /\ ~HasMetrics(voice_log) /\ ~HasEntries(voice_log)
              THEN log_rubbish_voice_log(s2, user_id)
              ELSE s2
    IN  IF db_user = NoNum THEN s
        ELSE IF s1.raised THEN s1
        ELSE IF s2.raised THEN s2
        ELSE [s3 EXCEPT !.ret = voice_log.comment]

\* manage_voice_log from the point where its query has returned the workout
\* most_recent_workout, inside the window, for a log with entries
manage_voice_log_consolidate(s, voice_log, most_recent_workout) ==
    LET s2 == append_to_loaded_workout(s, most_recent_workout, voice_log)
    IN  IF s2.raised THEN s2 ELSE [s2 EXCEPT !.ret = voice_log.comment]

\* ------------------------------------------------------- manual creation
ExerciseSetFromPatch(id, set_data, workout_id) ==
    [id |-> id, exercise_name |-> set_data.exercise_name,
     set_number |-> set_data.set_number, reps |-> set_data.reps,
     weight |-> set_data.weight, weight_unit |-> set_data.weight_unit,
     workout_id |-> workout_id]

CardioSessionFromPatch(id, cardio_data, workout_id) ==
    [id |-> id, name |-> cardio_data.name,
     duration_minutes |-> cardio_data.duration_minutes,
     speed |-> cardio_data.speed, pace |-> cardio_data.pace,
     pace_unit |-> cardio_data.pace_unit, distance |-> cardio_data.distance,
     distance_unit |-> cardio_data.distance_unit, laps |-> cardio_data.laps,
     workout_id |-> workout_id]

RECURSIVE AddPatchSets(_, _, _)
AddPatchSets(s, entries, workout_id) ==
    IF entries = <<>> THEN s
    ELSE AddPatchSets(
            [s EXCEPT !.work.exercise_sets =
                          @ \cup {ExerciseSetFromPatch(s.nid, Head(entries), workout_id)},
                      !.nid = @ + 1],
            Tail(entries), workout_id)

RECURSIVE AddPatchCardio(_, _, _)
AddPatchCardio(s, entries, workout_id) ==
    IF entries = <<>> THEN s
    ELSE AddPatchCardio(
            [s EXCEPT !.work.cardio_sessions =
                          @ \cup {CardioSessionFromPatch(s.nid, Head(entries), workout_id)},
                      !.nid = @ + 1],
            Tail(entries), workout_id)

\* Column(String, default="public") of Workout.visibility
DefaultVisibility == "public"

\* mutant: the workout is stamped with the time of the call
create_manual_workout_StampedNow(s, workout_data, user_id) ==
    LET creation_time == now
        status == StatusAt(IF workout_data.created_at # NoNum
                           THEN workout_data.created_at ELSE now, now)
        db_workout == [id |-> s.nid, user_id |-> user_id,
                       notes |-> workout_data.notes,
                       workout_type |-> workout_data.workout_type,
                       created_at |-> creation_time,
                       visibility |-> DefaultVisibility, status |-> status]
        s1 == CommitOrRaise([s EXCEPT !.work.workouts = @ \cup {db_workout},
                                      !.nid = @ + 1])
        s2 == AddPatchCardio(
                 AddPatchSets(s1, IF workout_data.has_sets THEN workout_data.sets ELSE <<>>,
                              db_workout.id),
                 IF workout_data.has_cardio THEN workout_data.cardio_sessions ELSE <<>>,
                 db_workout.id)
        s3 == CommitOrRaise(s2)
    IN  IF s1.raised THEN s1 ELSE s3

create_manual_workout(s, workout_data, user_id) ==
    LET creation_time == IF workout_data.created_at # NoNum
                         THEN workout_data.created_at ELSE now
        status == StatusAt(creation_time, now)
        db_workout == [id |-> s.nid, user_id |-> user_id,
                       notes |-> workout_data.notes,
                       workout_type |-> workout_data.workout_type,
                       created_at |-> creation_time,
                       visibility |-> DefaultVisibility, status |-> status]
        s1 == CommitOrRaise([s EXCEPT !.work.workouts = @ \cup {db_workout},
                                      !.nid = @ + 1])
        s2 == AddPatchCardio(
                 AddPatchSets(s1, IF workout_data.has_sets THEN workout_data.sets ELSE <<>>,
                              db_workout.id),
                 IF workout_data.has_cardio THEN workout_data.cardio_sessions ELSE <<>>,
                 db_workout.id)
        s3 == CommitOrRaise(s2)
    IN  IF s1.raised THEN s1 ELSE s3

\* ------------------------------------------------------------ update_workout
\* mutant: a workout made public is announced to the close friends only
ShareOnVisibilityChange_CloseOnly(s, old_visibility, new_visibility, user_id, workout_id) ==
    IF new_visibility \in {"public", "close_friends"} /\ old_visibility = "private"
    THEN NotifyAll(s, get_close_friend_ids(s.work, user_id), user_id,
                   "WORKOUT_SHARE", workout_id)
    ELSE s

\* the fan-out decided by the old and the new visibility
ShareOnVisibilityChange(s, old_visibility, new_visibility, user_id, workout_id) ==
    IF old_visibility # "public" /\ new_visibility = "public"
    THEN NotifyAll(s, get_friends_id_list(s.work, user_id), user_id,
                   "WORKOUT_SHARE", workout_id)
    ELSE IF old_visibility = "private" /\ new_visibility = "close_friends"
    THEN NotifyAll(s, get_close_friend_ids(s.work, user_id), user_id,
                   "WORKOUT_SHARE", workout_id)
    ELSE s

\* mutant: a new timestamp makes the status follow the clock
ApplyScalars_RecomputeStatus(w, patch) ==
    [w EXCEPT
        !.notes = IF "notes" \in patch.fields THEN patch.notes ELSE @,
        !.workout_type = IF "workout_type" \in patch.fields THEN patch.workout_type ELSE @,
        !.status = IF "status" \in patch.fields THEN patch.status
                   ELSE IF "created_at" \in patch.fields /\ patch.created_at # NoNum
                   THEN StatusAt(patch.created_at, now) ELSE @,
        !.created_at = IF "created_at" \in patch.fields /\ patch.created_at # NoNum
                       THEN patch.created_at ELSE @,
        !.visibility = IF "visibility" \in patch.fields THEN patch.visibility ELSE @]

\* step 1 of update_workout: the scalar fields present in the request
ApplyScalars(w, patch) ==
    [w EXCEPT
        !.notes = IF "notes" \in patch.fields THEN patch.notes ELSE @,
        !.workout_type = IF "workout_type" \in patch.fields THEN patch.workout_type ELSE @,
        !.status = IF "status" \in patch.fields THEN patch.status ELSE @,
        !.created_at = IF "created_at" \in patch.fields /\ patch.created_at # NoNum
                       THEN patch.created_at ELSE @,
        !.visibility = IF "visibility" \in patch.fields THEN patch.visibility ELSE @]

\* step 2 of update_workout, for one of the two child tables: rows is the
\* table, entries the list of the request, make builds a new row
RECURSIVE DiffChildren(_, _, _, _, _, _, _)
DiffChildren(rows, nid, current_ids, incoming_ids, entries, workout_id, isSet) ==
    IF entries = <<>>
    THEN [rows |-> {r \in rows : r.id \notin (current_ids \ incoming_ids)},
          nid |-> nid]
    ELSE LET e == Head(entries)
         IN  IF e.id # NoNum /\ e.id \in current_ids
             THEN DiffChildren(
                    {IF r.id = e.id
                     THEN (IF isSet THEN ExerciseSetFromPatch(r.id, e, r.workout_id)
                           ELSE CardioSessionFromPatch(r.id, e, r.workout_id))
                     ELSE r : r \in rows},
                    nid, current_ids, incoming_ids \cup {e.id}, Tail(entries),
                    workout_id, isSet)
             ELSE IF e.id = NoNum
             THEN DiffChildren(
                    rows \cup {IF isSet THEN ExerciseSetFromPatch(nid, e, workout_id)
                               ELSE CardioSessionFromPatch(nid, e, workout_id)},
                    nid + 1, current_ids, incoming_ids, Tail(entries),
                    workout_id, isSet)
             ELSE DiffChildren(rows, nid, current_ids, incoming_ids,
                               Tail(entries), workout_id, isSet)

\* mutant: children missing from the list of the request are kept
UpdateChildren_KeepingAbsent(s, patch, workout_id) ==
    LET d1 == IF patch.has_sets
              THEN DiffChildren(s.work.exercise_sets, s.nid,
                      {r.id : r \in {x \in s.work.exercise_sets : x.workout_id = workout_id}},
                      {}, patch.sets, workout_id, TRUE)
              ELSE [rows |-> s.work.exercise_sets, nid |-> s.nid]
        d2 == IF patch.has_cardio
              THEN DiffChildren(s.work.cardio_sessions, d1.nid,
                      {r.id : r \in {x \in s.work.cardio_sessions : x.workout_id = workout_id}},
                      {}, patch.cardio_sessions, workout_id, FALSE)
              ELSE [rows |-> s.work.cardio_sessions, nid |-> d1.nid]
        keptSets == {r \in s.work.exercise_sets : r.id \notin {x.id : x \in d1.rows}}
        keptCardio == {r \in s.work.cardio_sessions : r.id \notin {x.id : x \in d2.rows}}
    IN  [s EXCEPT !.work.exercise_sets = d1.rows \cup keptSets,
                  !.work.cardio_sessions = d2.rows \cup keptCardio, !.nid = d2.nid]

UpdateChildren(s, patch, workout_id) ==
    LET d1 == IF patch.has_sets
              THEN DiffChildren(s.work.exercise_sets, s.nid,
                      {r.id : r \in {x \in s.work.exercise_sets : x.workout_id = workout_id}},
                      {}, patch.sets, workout_id, TRUE)
              ELSE [rows |-> s.work.exercise_sets, nid |-> s.nid]
        d2 == IF patch.has_cardio
              THEN DiffChildren(s.work.cardio_sessions, d1.nid,
                      {r.id : r \in {x \in s.work.cardio_sessions : x.workout_id = workout_id}},
                      {}, patch.cardio_sessions, workout_id, FALSE)
              ELSE [rows |-> s.work.cardio_sessions, nid |-> d1.nid]
    IN  [s EXCEPT !.work.exercise_sets = d1.rows,
                  !.work.cardio_sessions = d2.rows, !.nid = d2.nid]

update_workout(s, workout_id, workout_update, user_id) ==
    LET found == {w \in s.work.workouts : w.id = workout_id /\ w.user_id = user_id}
        db_workout == CHOOSE w \in found : TRUE
        s1 == [s EXCEPT !.work.workouts =
                  {IF w.id = workout_id THEN ApplyScalars(w, workout_update) ELSE w
                   : w \in @}]
        s2 == IF "visibility" \in workout_update.fields
              THEN ShareOnVisibilityChange(s1, db_workout.visibility,
                       workout_update.visibility, user_id, workout_id)
              ELSE s1
        s3 == UpdateChildren(s2, workout_update, workout_id)
        s4 == CommitOrRaise(s3)
    IN  IF found = {} THEN s
        ELSE [s4 EXCEPT !.ret = IF s4.raised THEN None ELSE "workout"]

\* ------------------------------------------------------------ delete_workout
\* mutant: the workout is looked up by its id alone
delete_workout_AnyOwner(s, workout_id, user_id) ==
    LET found == {w \in s.work.workouts : w.id = workout_id}
        s1 == [s EXCEPT
                 !.work.workouts = {w \in @ : w.id # workout_id},
                 !.work.exercise_sets = {r \in @ : r.workout_id # workout_id},
                 !.work.cardio_sessions = {r \in @ : r.workout_id # workout_id}]
        s2 == CommitBare(s1)
    IN  IF found = {} THEN s
        ELSE [s2 EXCEPT !.ret = IF s2.raised THEN None ELSE "workout"]

delete_workout(s, workout_id, user_id) ==
    LET found == {w \in s.work.workouts : w.id = workout_id /\ w.user_id = user_id}
        s1 == [s EXCEPT
                 !.work.workouts = {w \in @ : w.id # workout_id},
                 !.work.exercise_sets = {r \in @ : r.workout_id # workout_id},
                 !.work.cardio_sessions = {r \in @ : r.workout_id # workout_id}]
        s2 == CommitBare(s1)
    IN  IF found = {} THEN s
        ELSE [s2 EXCEPT !.ret = IF s2.raised THEN None ELSE "workout"]

\* ------------------------------------------------------------ daily jobs
\* services/scheduler.py.  datetime.date.today() and func.date(created_at)
\* are taken in one time zone, UTC: the server and the database session are
\* assumed to run in UTC, as the timestamps the handlers write do.
PlannedToday(db, today) ==
    {w \in db.workouts : w.status = "planned" /\ DateOf(w.created_at) = today}

RECURSIVE RemindAll(_, _)
RemindAll(s, rows) ==
    IF rows = <<>> THEN s
    ELSE RemindAll(create_notification(s, Head(rows).user_id, NoNum, "REMINDER",
                                       Head(rows).id),
                   Tail(rows))

\* mutant: the reminder goes out for every workout dated today
check_scheduled_workouts_AnyStatus(s) ==
    RemindAll(s, RowsInOrder({w \in s.work.workouts : DateOf(w.created_at) = DateOf(now)}))

check_scheduled_workouts(s) ==
    LET today == DateOf(now)
    IN  RemindAll(s, RowsInOrder(PlannedToday(s.work, today)))

\* mutant: stale planned workouts are completed as well
auto_complete_planned_workouts_Stale(s) ==
    LET found == {w \in s.work.workouts :
                     w.status = "planned" /\ DateOf(w.created_at) <= DateOf(now)}
        s1 == [s EXCEPT !.work.workouts =
                  {IF w \in found THEN [w EXCEPT !.status = "completed"] ELSE w
                   : w \in @}]
    IN  IF found = {} THEN s ELSE Commit(s1)

\* one batch commit; a failure is logged and rolled back, never re-raised
auto_complete_planned_workouts(s) ==
    LET today == DateOf(now)
        found == PlannedToday(s.work, today)
        s1 == [s EXCEPT !.work.workouts =
                  {IF w \in found THEN [w EXCEPT !.status = "completed"] ELSE w
                   : w \in @}]
    IN  IF found = {} THEN s ELSE Commit(s1)

\* ------------------------------------------------------------ inputs
BenchEntry == [exercise_name |-> "Bench", sets |-> 3, reps |-> 10,
               weight |-> 80, weight_unit |-> "kg"]
SquatEntry == [exercise_name |-> "Squat", sets |-> 1, reps |-> 5,
               weight |-> 100, weight_unit |-> "kg"]
RunEntry == [exercise_name |-> "Run", duration_minutes |-> 10, speed |-> NoNum,
             pace |-> None, pace_unit |-> None, distance |-> 1,
             distance_unit |-> "km", laps |-> NoNum]

NoMetrics == [f \in {MetricFields[i] : i \in 1..Len(MetricFields)} |-> NoNum]
SomeMetrics == [NoMetrics EXCEPT !["weight"] = 80, !["fat_percentage"] = 20]

MkLog(sets, cardio, note, workout_type, visibility, updated, scheduled_date) ==
    [sets |-> sets, cardio |-> cardio, note |-> note,
     workout_type |-> workout_type, visibility |-> visibility,
     updated |-> updated, scheduled_date |-> scheduled_date,
     comment |-> "Nice"]

ScheduleChoices == {NoNum} \cup (0..MaxDay)

\* logs with entries: a strength log, a mixed log with metric updates, a
\* cardio log; each unscheduled or scheduled
EntryLogs ==
    UNION {
      { MkLog(<<BenchEntry>>, <<>>, <<"n1">>, "Chest", "private", NoMetrics, sd),
        MkLog(<<BenchEntry, SquatEntry>>, <<RunEntry>>, <<>>, "Legs", "public", SomeMetrics, sd),
        MkLog(<<>>, <<RunEntry>>, <<"n3">>, "Cardio", "close_friends", NoMetrics, sd) }
      : sd \in ScheduleChoices }

\* logs without entries: metric updates only, and nothing at all
EmptyLogs ==
    UNION {
      { MkLog(<<>>, <<>>, <<>>, None, "private", SomeMetrics, sd),
        MkLog(<<>>, <<>>, <<"n0">>, None, "private", NoMetrics, sd) }
      : sd \in ScheduleChoices }

\* a log whose weight the parser gave as 0 (the field is float | None)
ZeroMetrics == [NoMetrics EXCEPT !["weight"] = 0, !["bench_1rm"] = 100]
MetricLogs ==
    EmptyLogs \cup {MkLog(<<>>, <<>>, <<>>, None, "private", ZeroMetrics, NoNum)}

CreatedAtChoices == {NoNum} \cup TimePoints

NewSet == [id |-> NoNum, exercise_name |-> "Curl", set_number |-> 1,
           reps |-> 12, weight |-> 20, weight_unit |-> "kg"]

MkPatch(fields, notes, workout_type, status, created_at, visibility, has_sets, sets, has_cardio, cardio) ==
    [fields |-> fields, notes |-> notes, workout_type |-> workout_type,
     status |-> status, created_at |-> created_at, visibility |-> visibility,
     has_sets |-> has_sets, sets |-> sets, has_cardio |-> has_cardio,
     cardio_sessions |-> cardio]

EmptyPatch == MkPatch({}, <<>>, None, None, NoNum, None, FALSE, <<>>, FALSE, <<>>)

VisibilityPatches ==
    {[EmptyPatch EXCEPT !.fields = {"visibility"}, !.visibility = v] : v \in Visibilities}
StatusPatches ==
    {[EmptyPatch EXCEPT !.fields = {"status"}, !.status = st] : st \in Statuses}
TimePatches ==
    {[EmptyPatch EXCEPT !.fields = {"created_at"}, !.created_at = t] : t \in TimePoints}
\* notes, visibility and the list of sets in one request
RichPatches ==
    {[EmptyPatch EXCEPT !.fields = {"notes", "visibility"}, !.notes = <<"edited">>,
                        !.visibility = v, !.has_sets = TRUE, !.sets = <<NewSet>>]
     : v \in {"public", "close_friends"}}

NewCardio == [id |-> NoNum, name |-> "Row", duration_minutes |-> 15, speed |-> NoNum,
              pace |-> None, pace_unit |-> None, distance |-> 2,
              distance_unit |-> "km", laps |-> NoNum]

\* a request entry that edits the stored set r / the stored cardio session r
EditedSet(r) ==
    [id |-> r.id, exercise_name |-> r.exercise_name, set_number |-> r.set_number,
     reps |-> r.reps + 1, weight |-> r.weight, weight_unit |-> "lb"]
EditedCardio(r) ==
    [id |-> r.id, name |-> r.name, duration_minutes |-> r.duration_minutes + 1,
     speed |-> r.speed, pace |-> r.pace, pace_unit |-> r.pace_unit,
     distance |-> r.distance, distance_unit |-> r.distance_unit, laps |-> r.laps]

\* the lists of sets a client can send for workout w: edits of some of its
\* stored sets, then nothing, a set without id, or a set whose id is not the
\* id of a set of w
SetLists(w) ==
    LET mine == {r \in exercise_sets : r.workout_id = w.id}
        edits(keep) == LET rows == RowsInOrder(keep)
                       IN  [i \in 1..Len(rows) |-> EditedSet(rows[i])]
    IN  {edits(keep) \o extra :
            keep \in SUBSET mine,
            extra \in {<<>>, <<NewSet>>, <<[NewSet EXCEPT !.id = w.id]>>}}
CardioLists(w) ==
    LET mine == {r \in cardio_sessions : r.workout_id = w.id}
        edits(keep) == LET rows == RowsInOrder(keep)
                       IN  [i \in 1..Len(rows) |-> EditedCardio(rows[i])]
    IN  {edits(keep) \o extra : keep \in SUBSET mine, extra \in {<<>>, <<NewCardio>>}}
ChildPatches(w) ==
    {[EmptyPatch EXCEPT !.has_sets = TRUE, !.sets = l] : l \in SetLists(w)}
    \cup {[EmptyPatch EXCEPT !.has_cardio = TRUE, !.cardio_sessions = l]
          : l \in CardioLists(w)}

ManualData ==
    {[EmptyPatch EXCEPT !.fields = {"notes", "workout_type", "created_at"},
                        !.notes = <<"manual">>, !.workout_type = "Strength",
                        !.created_at = t, !.has_sets = TRUE, !.sets = <<NewSet>>]
     : t \in CreatedAtChoices}

\* ------------------------------------------------------------ social graph
\* crud/social.py.  A query's .first() has no ORDER BY: the caller passes the
\* row it returned as a set, empty when there is none.
\* mutant: the existence check looks in one direction only
Between_OneDirection(db, user_a, user_b) ==
    {f \in db.friendships : f.requester_id = user_a /\ f.addressee_id = user_b}

Between(db, user_a, user_b) ==
    {f \in db.friendships :
        \/ (f.requester_id = user_a /\ f.addressee_id = user_b)
        \/ (f.requester_id = user_b /\ f.addressee_id = user_a)}

Directed(db, user_a, user_b) ==
    {f \in db.friendships : f.requester_id = user_a /\ f.addressee_id = user_b}

\* the results .first() can give on a set of rows
FirstOf(rows) == IF rows = {} THEN {{}} ELSE {{r} : r \in rows}

get_friendship_status(sent, received) ==
    IF sent # {}
    THEN IF \E f \in sent : f.status = "accepted" THEN "accepted" ELSE "pending_sent"
    ELSE IF received # {}
    THEN IF \E f \in received : f.status = "accepted" THEN "accepted"
         ELSE "pending_received"
    ELSE "none"

\* send_friend_request after its existence check found no row
send_friend_request_insert(s, requester_id, addressee_id) ==
    LET friendship == [id |-> s.nid, requester_id |-> requester_id,
                       addressee_id |-> addressee_id, status |-> "pending"]
        s1 == [s EXCEPT !.work.friendships = @ \cup {friendship}, !.nid = @ + 1]
        s2 == CommitBare(s1)
    IN  IF s2.raised THEN s2
        ELSE [create_notification(s2, addressee_id, requester_id,
                                  "FRIEND_REQUEST", friendship.id)
                EXCEPT !.ret = "friendship"]

\* mutant: any user may answer a request
respond_to_friend_request_AnyActor(s, user_id, friendship_id, action) ==
    LET found == {f \in s.work.friendships : f.id = friendship_id}
        friendship == CHOOSE f \in found : TRUE
        accepted == [friendship EXCEPT !.status = "accepted"]
    IN  IF found = {} THEN s
        ELSE
          LET s1 == IF action = "accept"
                    THEN create_notification(
                             [s EXCEPT !.work.friendships =
                                 (@ \ {friendship}) \cup {accepted}],
                             friendship.requester_id, user_id,
                             "FRIEND_ACCEPT", friendship.id)
                    ELSE IF action = "reject"
                    THEN [s EXCEPT !.work.friendships = @ \ {friendship}]
                    ELSE s
              s2 == CommitBare(s1)
          IN  IF s2.raised THEN s2 ELSE [s2 EXCEPT !.ret = "friendship"]

\* mutant: a rejected request is kept and marked, not deleted
respond_to_friend_request_MarkRejected(s, user_id, friendship_id, action) ==
    LET found == {f \in s.work.friendships : f.id = friendship_id}
        friendship == CHOOSE f \in found : TRUE
        accepted == [friendship EXCEPT !.status = "accepted"]
        rejected == [friendship EXCEPT !.status = "rejected"]
    IN  IF found = {} THEN s
        ELSE IF friendship.addressee_id # user_id THEN s
        ELSE
          LET s1 == IF action = "accept"
                    THEN create_notification(
                             [s EXCEPT !.work.friendships =
                                 (@ \ {friendship}) \cup {accepted}],
                             friendship.requester_id, user_id,
                             "FRIEND_ACCEPT", friendship.id)
                    ELSE IF action = "reject"
                    THEN [s EXCEPT !.work.friendships =
                                 (@ \ {friendship}) \cup {rejected}]
                    ELSE s
              s2 == CommitBare(s1)
          IN  IF s2.raised THEN s2 ELSE [s2 EXCEPT !.ret = "friendship"]

respond_to_friend_request(s, user_id, friendship_id, action) ==
    LET found == {f \in s.work.friendships : f.id = friendship_id}
        friendship == CHOOSE f \in found : TRUE
        accepted == [friendship EXCEPT !.status = "accepted"]
    IN  IF found = {} THEN s
        ELSE IF friendship.addressee_id # user_id THEN s
        ELSE
          LET s1 == IF action = "accept"
                    THEN create_notification(
                             [s EXCEPT !.work.friendships =
                                 (@ \ {friendship}) \cup {accepted}],
                             friendship.requester_id, user_id,
                             "FRIEND_ACCEPT", friendship.id)
                    ELSE IF action = "reject"
                    THEN [s EXCEPT !.work.friendships = @ \ {friendship}]
                    ELSE s
              s2 == CommitBare(s1)
          IN  IF s2.raised THEN s2 ELSE [s2 EXCEPT !.ret = "friendship"]

\* mutant: only the caller's own close-friend link is removed
remove_friend_OwnLinkOnly(s, user_a, user_b, found) ==
    IF found = {} THEN s
    ELSE LET s1 == [s EXCEPT
                      !.work.friendships = @ \ found,
                      !.work.close_friends = @ \ {<<user_a, user_b>>}]
             s2 == CommitBare(s1)
         IN  IF s2.raised THEN s2 ELSE [s2 EXCEPT !.ret = "True"]

\* found: the accepted row between the two that the query returned
remove_friend(s, user_a, user_b, found) ==
    IF found = {} THEN s
    ELSE LET s1 == [s EXCEPT
                      !.work.friendships = @ \ found,
                      !.work.close_friends =
                          @ \ {<<user_a, user_b>>, <<user_b, user_a>>}]
             s2 == CommitBare(s1)
         IN  IF s2.raised THEN s2 ELSE [s2 EXCEPT !.ret = "True"]

check_is_close_friend(db, owner_id, friend_id) ==
    <<owner_id, friend_id>> \in db.close_friends

\* db.add(CloseFriend(...)): (owner_id, friend_id) is the primary key, a
\* second row with the key makes the commit raise
AddCloseFriend(s, owner_id, friend_id) ==
    IF <<owner_id, friend_id>> \in s.work.close_friends
    THEN [s EXCEPT !.raised = TRUE, !.k = @ + 1]
    ELSE [s EXCEPT !.work.close_friends = @ \cup {<<owner_id, friend_id>>}]

\* mutant: the link is added without looking for it first
toggle_close_friend_Unchecked(s, owner_id, friend_id, is_close, sent, received) ==
    IF get_friendship_status(sent, received) # "accepted"
    THEN [s EXCEPT !.raised = TRUE]
    ELSE LET s1 == IF is_close
                   THEN AddCloseFriend(s, owner_id, friend_id)
                   ELSE [s EXCEPT !.work.close_friends =
                                     @ \ {<<owner_id, friend_id>>}]
             s2 == IF s1.raised THEN s1 ELSE CommitBare(s1)
         IN  IF s2.raised THEN s2 ELSE [s2 EXCEPT !.ret = "done"]

\* mutant: strangers can be made close friends
toggle_close_friend_Unvalidated(s, owner_id, friend_id, is_close, sent, received) ==
    LET s1 == IF is_close
              THEN IF ~check_is_close_friend(s.work, owner_id, friend_id)
                   THEN AddCloseFriend(s, owner_id, friend_id)
                   ELSE s
              ELSE [s EXCEPT !.work.close_friends =
                                @ \ {<<owner_id, friend_id>>}]
        s2 == IF s1.raised THEN s1 ELSE CommitBare(s1)
    IN  IF s2.raised THEN s2 ELSE [s2 EXCEPT !.ret = "done"]

toggle_close_friend(s, owner_id, friend_id, is_close, sent, received) ==
    IF get_friendship_status(sent, received) # "accepted"
    THEN [s EXCEPT !.raised = TRUE]
    ELSE LET s1 == IF is_close
                   THEN IF ~check_is_close_friend(s.work, owner_id, friend_id)
                        THEN AddCloseFriend(s, owner_id, friend_id)
                        ELSE s
                   ELSE [s EXCEPT !.work.close_friends =
                                     @ \ {<<owner_id, friend_id>>}]
             s2 == IF s1.raised THEN s1 ELSE CommitBare(s1)
         IN  IF s2.raised THEN s2 ELSE [s2 EXCEPT !.ret = "done"]

\* ------------------------------------------------------------ nudge and spot
WEEKLY_ACTION_LIMIT == 3
Actions == {"nudge", "spot"}
\* action.upper()
Upper(action) == IF action = "nudge" THEN "NUDGE" ELSE IF action = "spot" THEN "SPOT" ELSE action

\* mutant: an interaction made exactly seven days ago no longer counts
get_weekly_interaction_count_Strict(db, sender_id, action_type) ==
    LET seven_days_ago == now - 7 * MinutesPerDay
    IN  Cardinality({i \in db.interactions :
                        /\ i.sender_id = sender_id
                        /\ i.action_type = action_type
                        /\ i.created_at > seven_days_ago})

get_weekly_interaction_count(db, sender_id, action_type) ==
    LET seven_days_ago == now - 7 * MinutesPerDay
    IN  Cardinality({i \in db.interactions :
                        /\ i.sender_id = sender_id
                        /\ i.action_type = action_type
                        /\ i.created_at >= seven_days_ago})

\* mutant: the spam check looks at nudges and spots alike
perform_social_action_AnyAction(s, sender_id, recipient_id, action) ==
    LET count == get_weekly_interaction_count(s.work, sender_id, action)
        one_day_ago == now - MinutesPerDay
        recent == {i \in s.work.interactions :
                      /\ i.sender_id = sender_id
                      /\ i.recipient_id = recipient_id
                      /\ i.created_at >= one_day_ago}
        interaction == [id |-> s.nid, sender_id |-> sender_id,
                        recipient_id |-> recipient_id, action_type |-> action,
                        created_at |-> now]
        s1 == [s EXCEPT !.work.interactions = @ \cup {interaction},
                        !.nid = @ + 1,
                        !.work.counters[recipient_id][action] = @ + 1]
        s2 == create_notification(s1, recipient_id, sender_id, Upper(action),
                                  interaction.id)
        s3 == CommitOrRaise(s2)
    IN  IF count >= WEEKLY_ACTION_LIMIT \/ recent # {}
        THEN [s EXCEPT !.raised = TRUE, !.ret = "ValueError"]
        ELSE [s3 EXCEPT !.ret = IF s3.raised THEN None ELSE "True"]

perform_social_action(s, sender_id, recipient_id, action) ==
    LET count == get_weekly_interaction_count(s.work, sender_id, action)
        one_day_ago == now - MinutesPerDay
        recent == {i \in s.work.interactions :
                      /\ i.sender_id = sender_id
                      /\ i.recipient_id = recipient_id
                      /\ i.action_type = action
                      /\ i.created_at >= one_day_ago}
        interaction == [id |-> s.nid, sender_id |-> sender_id,
                        recipient_id |-> recipient_id, action_type |-> action,
                        created_at |-> now]
        s1 == [s EXCEPT !.work.interactions = @ \cup {interaction},
                        !.nid = @ + 1,
                        !.work.counters[recipient_id][action] = @ + 1]
        s2 == create_notification(s1, recipient_id, sender_id, Upper(action),
                                  interaction.id)
        s3 == CommitOrRaise(s2)
    IN  IF count >= WEEKLY_ACTION_LIMIT \/ recent # {}
        THEN [s EXCEPT !.raised = TRUE, !.ret = "ValueError"]
        ELSE [s3 EXCEPT !.ret = IF s3.raised THEN None ELSE "True"]

\* ------------------------------------------------------------ state update
\* the next request sees what this one committed
Committed(s) ==
    /\ workouts' = s.comm.workouts
    /\ exercise_sets' = s.comm.exercise_sets
    /\ cardio_sessions' = s.comm.cardio_sessions
    /\ notifications' = s.comm.notifications
    /\ friendships' = s.comm.friendships
    /\ close_friends' = s.comm.close_friends
    /\ history' = s.comm.history
    /\ rubbish' = s.comm.rubbish
    /\ interactions' = s.comm.interactions
    /\ counters' = s.comm.counters
    /\ pushes' = s.pushes
    /\ nextId' = s.nid

\* a request that ran to its end, counted against the budget
Install(s) ==
    /\ Committed(s)
    /\ served' = served + 1

\* a step is taken while the budget lasts; only commits that the request
\* reaches can fail
Admissible(s) ==
    /\ served < MaxCalls
    /\ s.fails \subseteq 1..s.k

Outcome(s) == IF s.raised THEN "raised" ELSE IF s.ret = None THEN "none" ELSE "ok"

\* ------------------------------------------------------------ actions
Tick ==
    /\ served < MaxCalls
    /\ served' = served + 1
    /\ \E t \in TimePoints : t > now /\ now' = t
    /\ last' = [op |-> "tick", user_id |-> 0, args |-> <<>>, fails |-> {},
                result |-> "ok"]
    /\ UNCHANGED <<workouts, exercise_sets, cardio_sessions, notifications,
                   friendships, close_friends, history, rubbish, interactions,
                   counters, pushes, nextId, pcs>>

ManageVoiceLog(user_id, log, created_at, fails, most_recent) ==
    LET s == manage_voice_log(Begin(fails), log, user_id, created_at, most_recent)
    IN  /\ Admissible(s)
        /\ Install(s)
        /\ last' = [op |-> "manage_voice_log", user_id |-> user_id,
                    args |-> [log |-> log, created_at |-> created_at],
                    fails |-> fails, result |-> Outcome(s)]
        /\ UNCHANGED <<now, pcs>>

\* the requests of the users in `users` with the logs in `logs`
IngestFrom(users, logs, failsets) ==
    \E user_id \in users, log \in logs, fails \in failsets :
      \E created_at \in (IF log.scheduled_date = NoNum THEN CreatedAtChoices ELSE {NoNum}) :
        LET cands == MostRecentWorkouts(DB, user_id)
        IN  \E most_recent \in (IF cands = {} THEN {{}} ELSE {{w} : w \in cands}) :
              ManageVoiceLog(user_id, log, created_at, fails, most_recent)

CreateManualWorkout(user_id, workout_data, fails) ==
    LET s == create_manual_workout(Begin(fails), workout_data, user_id)
    IN  /\ Admissible(s)
        /\ Install(s)
        /\ last' = [op |-> "create_manual_workout", user_id |-> user_id,
                    args |-> [workout_data |-> workout_data],
                    fails |-> fails,
                    result |-> IF s.raised THEN "raised" ELSE "ok"]
        /\ UNCHANGED <<now, pcs>>

UpdateWorkout(user_id, workout_id, patch, fails) ==
    LET s == update_workout(Begin(fails), workout_id, patch, user_id)
    IN  /\ Admissible(s)
        /\ Install(s)
        /\ last' = [op |-> "update_workout", user_id |-> user_id,
                    args |-> [workout_id |-> workout_id, patch |-> patch],
                    fails |-> fails, result |-> Outcome(s)]
        /\ UNCHANGED <<now, pcs>>

DeleteWorkout(user_id, workout_id, fails) ==
    LET s == delete_workout(Begin(fails), workout_id, user_id)
    IN  /\ Admissible(s)
        /\ Install(s)
        /\ last' = [op |-> "delete_workout", user_id |-> user_id,
                    args |-> [workout_id |-> workout_id],
                    fails |-> fails, result |-> Outcome(s)]
        /\ UNCHANGED <<now, pcs>>

\* send_friend_request up to its existence check.  A call that finds a row
\* returns it; a call that finds none is in flight until its insert.
SendCheck(requester_id, addressee_id) ==
    /\ served < MaxCalls
    /\ served' = served + 1
    /\ IF Between(DB, requester_id, addressee_id) # {}
       THEN /\ pcs' = pcs
            /\ last' = [op |-> "send_friend_request", user_id |-> requester_id,
                        args |-> [addressee_id |-> addressee_id],
                        fails |-> {}, result |-> "existing"]
       ELSE /\ pcs' = pcs \cup {[call |-> served, requester_id |-> requester_id,
                                  addressee_id |-> addressee_id]}
            /\ last' = [op |-> "send_friend_request_check", user_id |-> requester_id,
                        args |-> [addressee_id |-> addressee_id],
                        fails |-> {}, result |-> "ok"]
    /\ UNCHANGED <<now, workouts, exercise_sets, cardio_sessions, notifications,
                   friendships, close_friends, history, rubbish, interactions,
                   counters, pushes, nextId>>

\* the rest of send_friend_request: insert, commit, notify
SendInsert(c, fails) ==
    LET s == send_friend_request_insert(Begin(fails), c.requester_id, c.addressee_id)
    IN  /\ c \in pcs
        /\ s.fails \subseteq 1..s.k
        /\ Committed(s)
        /\ served' = served
        /\ pcs' = pcs \ {c}
        /\ last' = [op |-> "send_friend_request", user_id |-> c.requester_id,
                    args |-> [addressee_id |-> c.addressee_id],
                    fails |-> fails, result |-> Outcome(s)]
        /\ UNCHANGED now

RespondToFriendRequest(user_id, friendship_id, action, fails) ==
    LET s == respond_to_friend_request(Begin(fails), user_id, friendship_id, action)
    IN  /\ Admissible(s)
        /\ Install(s)
        /\ last' = [op |-> "respond_to_friend_request", user_id |-> user_id,
                    args |-> [friendship_id |-> friendship_id, action |-> action],
                    fails |-> fails, result |-> Outcome(s)]
        /\ UNCHANGED <<now, pcs>>

RemoveFriend(user_a, user_b, fails) ==
    \E found \in FirstOf({f \in Between(DB, user_a, user_b) : f.status = "accepted"}) :
        LET s == remove_friend(Begin(fails), user_a, user_b, found)
        IN  /\ Admissible(s)
            /\ Install(s)
            /\ last' = [op |-> "remove_friend", user_id |-> user_a,
                        args |-> [user_b |-> user_b],
                        fails |-> fails, result |-> Outcome(s)]
            /\ UNCHANGED <<now, pcs>>

ToggleCloseFriend(owner_id, friend_id, is_close, fails) ==
    \E sent \in FirstOf(Directed(DB, owner_id, friend_id)),
       received \in FirstOf(Directed(DB, friend_id, owner_id)) :
        LET s == toggle_close_friend(Begin(fails), owner_id, friend_id, is_close,
                                     sent, received)
        IN  /\ Admissible(s)
            /\ Install(s)
            /\ last' = [op |-> "toggle_close_friend", user_id |-> owner_id,
                        args |-> [friend_id |-> friend_id, is_close |-> is_close],
                        fails |-> fails, result |-> Outcome(s)]
            /\ UNCHANGED <<now, pcs>>

\* the two cron jobs; found is the number of rows the job's query returned
CheckScheduledWorkouts(fails) ==
    LET s == check_scheduled_workouts(Begin(fails))
    IN  /\ Admissible(s)
        /\ Install(s)
        /\ last' = [op |-> "check_scheduled_workouts", user_id |-> 0,
                    args |-> [today |-> DateOf(now),
                              found |-> Cardinality(PlannedToday(DB, DateOf(now)))],
                    fails |-> fails, result |-> "ok"]
        /\ UNCHANGED <<now, pcs>>

AutoCompletePlannedWorkouts(fails) ==
    LET s == auto_complete_planned_workouts(Begin(fails))
    IN  /\ Admissible(s)
        /\ Install(s)
        /\ last' = [op |-> "auto_complete_planned_workouts", user_id |-> 0,
                    args |-> [today |-> DateOf(now),
                              found |-> Cardinality(PlannedToday(DB, DateOf(now)))],
                    fails |-> fails, result |-> "ok"]
        /\ UNCHANGED <<now, pcs>>

PerformSocialAction(sender_id, recipient_id, action, fails) ==
    LET s == perform_social_action(Begin(fails), sender_id, recipient_id, action)
    IN  /\ Admissible(s)
        /\ Install(s)
        /\ last' = [op |-> "perform_social_action", user_id |-> sender_id,
                    args |-> [recipient_id |-> recipient_id, action |-> action],
                    fails |-> fails,
                    result |-> IF s.ret = "ValueError" THEN "refused" ELSE Outcome(s)]
        /\ UNCHANGED <<now, pcs>>

\* time passes: a minute or a day
Wait ==
    /\ served < MaxCalls
    /\ served' = served + 1
    /\ \E d \in {1, MinutesPerDay} : now' = now + d
    /\ last' = [op |-> "tick", user_id |-> 0, args |-> <<>>, fails |-> {},
                result |-> "ok"]
    /\ UNCHANGED <<workouts, exercise_sets, cardio_sessions, notifications,
                   friendships, close_friends, history, rubbish, interactions,
                   counters, pushes, nextId, pcs>>

\* manage_voice_log up to the query for the most recent workout, for an
\* unscheduled log with entries and no metric update whose query returns a
\* workout inside the window: the request holds the row it loaded
VoiceLookup(user_id, log, created_at) ==
    LET logging_timestamp == IF created_at # NoNum THEN created_at ELSE now
    IN  /\ served < MaxCalls
        /\ served' = served + 1
        /\ log.scheduled_date = NoNum /\ HasEntries(log) /\ ~HasMetrics(log)
        /\ get_user(DB, user_id) # NoNum
        /\ \E w \in MostRecentWorkouts(DB, user_id) :
              /\ InConsolidationWindow(logging_timestamp - w.created_at)
              /\ pcs' = pcs \cup {[call |-> served, user_id |-> user_id, log |-> log,
                                    logging_timestamp |-> logging_timestamp,
                                    loaded |-> w, done |-> FALSE, result |-> None]}
        /\ last' = [op |-> "manage_voice_log_lookup", user_id |-> user_id,
                    args |-> [log |-> log, created_at |-> created_at],
                    fails |-> {}, result |-> "ok"]
        /\ UNCHANGED <<now, workouts, exercise_sets, cardio_sessions, notifications,
                       friendships, close_friends, history, rubbish, interactions,
                       counters, pushes, nextId>>

\* the rest of that request: append to the loaded workout and commit
VoiceAppend(c, fails) ==
    LET s == manage_voice_log_consolidate(Begin(fails), c.log, c.loaded)
    IN  /\ c \in pcs /\ ~c.done
        /\ s.fails \subseteq 1..s.k
        /\ Committed(s)
        /\ served' = served
        /\ pcs' = (pcs \ {c}) \cup {[c EXCEPT !.done = TRUE, !.result = Outcome(s)]}
        /\ last' = [op |-> "manage_voice_log", user_id |-> c.user_id,
                    args |-> [log |-> c.log, created_at |-> c.logging_timestamp],
                    fails |-> fails, result |-> Outcome(s)]
        /\ UNCHANGED now

InitSocial ==
    /\ friendships = {[id |-> 1, requester_id |-> 1, addressee_id |-> 2, status |-> "accepted"],
                      [id |-> 2, requester_id |-> 3, addressee_id |-> 1, status |-> "accepted"]}
    /\ close_friends = {<<1, 2>>}
    /\ nextId = 3

InitCommon ==
    /\ now = NoonUTC(0) - 30
    /\ workouts = {}
    /\ exercise_sets = {}
    /\ cardio_sessions = {}
    /\ notifications = {}
    /\ history = [u \in Users |-> [f \in DOMAIN NoMetrics |-> <<>>]]
    /\ rubbish = [u \in Users |-> 0]
    /\ interactions = {}
    /\ counters = [u \in Users |-> [nudge |-> 0, spot |-> 0]]
    /\ pushes = [u \in Users |-> 0]
    /\ pcs = {}
    /\ served = 0
    /\ last = [op |-> "init", user_id |-> 0, args |-> <<>>, fails |-> {},
               result |-> "ok"]

Init == InitCommon /\ InitSocial

\* ---- the ingestion engine: every log with entries, any timestamp
Ingest == IngestFrom({1}, EntryLogs, {{}, {1}})
IngestOther == IngestFrom({2}, {l \in EntryLogs : l.cardio = <<>>}, {{}})
IngestGhost == IngestFrom({Ghost}, {l \in EntryLogs : l.cardio = <<>> /\ l.scheduled_date = NoNum}, {{}})

Next == Tick \/ Ingest \/ IngestOther \/ IngestGhost

Spec == Init /\ [][Next]_vars

\* ---- the metric histories: logs that carry metric updates, with or
\* without entries, any commit of the request failing
IngestMetrics == IngestFrom({1}, MetricLogs, {{}, {2}})
IngestMixed ==
    IngestFrom({1}, {l \in EntryLogs : l.updated = SomeMetrics /\ l.scheduled_date = NoNum},
               {{}, {1}, {3}, {4}, {5}})

NextMetrics == Tick \/ IngestMetrics \/ IngestMixed

SpecMetrics == Init /\ [][NextMetrics]_vars

\* ---- the workout aggregate: creation from logs and by hand, and updates
SeedIngest == IngestFrom({1}, EntryLogs, {{}})
CreateManual ==
    \E workout_data \in ManualData, fails \in {{}, {1}, {2}} :
        CreateManualWorkout(1, workout_data, fails)
Update ==
    \E w \in workouts, fails \in {{}, {1}, {2}, {3}},
       patch \in VisibilityPatches \cup StatusPatches \cup TimePatches \cup RichPatches :
        UpdateWorkout(w.user_id, w.id, patch, fails)
\* a user who does not own the workout, a workout that does not exist
UpdateForeign ==
    \E w \in workouts, patch \in VisibilityPatches :
        UpdateWorkout(2, w.id, patch, {})
UpdateMissing ==
    \E patch \in VisibilityPatches : UpdateWorkout(1, nextId, patch, {})

UpdateLists ==
    \E w \in workouts : \E patch \in ChildPatches(w), fails \in {{}, {1}} :
        UpdateWorkout(w.user_id, w.id, patch, fails)

NextWorkout ==
    Tick \/ SeedIngest \/ CreateManual \/ Update \/ UpdateForeign
         \/ UpdateMissing \/ UpdateLists

\* social graphs the workout owner can have: the second request accepted or
\* still pending, close friends none, one or all of the accepted friends
InitGraphs ==
    /\ \E g \in {<<"accepted", {<<1, 2>>}>>, <<"pending", {}>>,
                 <<"accepted", {<<1, 2>>, <<1, 3>>}>>} :
         /\ friendships =
              {[id |-> 1, requester_id |-> 1, addressee_id |-> 2, status |-> "accepted"],
               [id |-> 2, requester_id |-> 3, addressee_id |-> 1, status |-> g[1]]}
         /\ close_friends = g[2]
    /\ nextId = 3

InitWorkout == InitCommon /\ InitGraphs

SpecWorkout == InitWorkout /\ [][NextWorkout]_vars

\* ---- the scheduler: the two daily jobs over workouts planned earlier
\* workouts stored before the first step: a workout of user 1 planned for noon
\* of day 0 (with one set), a workout of user 2 planned for noon of day 1, and
\* a workout of user 1 logged at 11:30 of day 0
SeedWorkouts ==
    {[id |-> 3, user_id |-> 1, notes |-> <<"n1">>, workout_type |-> "Legs",
      created_at |-> NoonUTC(0), visibility |-> "private", status |-> "planned"],
     [id |-> 4, user_id |-> 2, notes |-> <<>>, workout_type |-> None,
      created_at |-> NoonUTC(1), visibility |-> "public", status |-> "planned"],
     [id |-> 5, user_id |-> 1, notes |-> <<>>, workout_type |-> "Chest",
      created_at |-> NoonUTC(0) - 30, visibility |-> "public", status |-> "completed"]}
SeedSets == {ExerciseSetFromLog(6, SquatEntry, 3)}

InitScheduler ==
    /\ now = NoonUTC(0) - 30
    /\ \E seeds \in SUBSET SeedWorkouts :
          /\ workouts = seeds
          /\ exercise_sets = {r \in SeedSets : r.workout_id \in {w.id : w \in seeds}}
    /\ cardio_sessions = {}
    /\ notifications = {}
    /\ friendships = {[id |-> 1, requester_id |-> 1, addressee_id |-> 2, status |-> "accepted"]}
    /\ close_friends = {}
    /\ history = [u \in Users |-> [f \in DOMAIN NoMetrics |-> <<>>]]
    /\ rubbish = [u \in Users |-> 0]
    /\ interactions = {}
    /\ counters = [u \in Users |-> [nudge |-> 0, spot |-> 0]]
    /\ pushes = [u \in Users |-> 0]
    /\ nextId = 7
    /\ pcs = {}
    /\ served = 0
    /\ last = [op |-> "init", user_id |-> 0, args |-> <<>>, fails |-> {},
               result |-> "ok"]

Plan == IngestFrom({1}, {l \in EntryLogs : l.cardio = <<>> /\ l.scheduled_date # NoNum}, {{}})
Remind == \E fails \in {{}, {1}} : CheckScheduledWorkouts(fails)
AutoComplete == \E fails \in {{}, {1}} : AutoCompletePlannedWorkouts(fails)

NextScheduler == Tick \/ Plan \/ Remind \/ AutoComplete

SpecScheduler == InitScheduler /\ [][NextScheduler]_vars

\* ---- nudges and spots: calls on top of interactions recorded earlier
InteractStart == 8 * MinutesPerDay + NoonMinutes

MkInteraction(id, sender_id, recipient_id, action_type, created_at) ==
    [id |-> id, sender_id |-> sender_id, recipient_id |-> recipient_id,
     action_type |-> action_type, created_at |-> created_at]

\* interactions recorded before the first step: exactly seven days ago, just
\* more than a day ago, exactly a day ago, a minute ago, and one of another
\* sender
SeedInteractions ==
    {MkInteraction(3, 1, 2, "nudge", InteractStart - 7 * MinutesPerDay),
     MkInteraction(4, 1, 3, "nudge", InteractStart - MinutesPerDay - 1),
     MkInteraction(5, 1, 3, "nudge", InteractStart - MinutesPerDay),
     MkInteraction(6, 1, 2, "spot", InteractStart - 1),
     MkInteraction(7, 2, 3, "nudge", InteractStart - 1)}

\* what a sequence of calls can leave: per sender and action at most three
\* rows in seven days and one per recipient in a day
Recordable(rows) ==
    \A i \in rows :
        LET mine == {j \in rows : /\ j.sender_id = i.sender_id
                                  /\ j.action_type = i.action_type
                                  /\ j.created_at <= i.created_at}
        IN  /\ Cardinality({j \in mine : j.created_at >= i.created_at - 7 * MinutesPerDay})
                  <= WEEKLY_ACTION_LIMIT
            /\ Cardinality({j \in mine : /\ j.recipient_id = i.recipient_id
                                          /\ j.created_at >= i.created_at - MinutesPerDay})
                  <= 1

InitInteract ==
    /\ now = InteractStart
    /\ workouts = {}
    /\ exercise_sets = {}
    /\ cardio_sessions = {}
    /\ notifications = {}
    /\ friendships = {[id |-> 1, requester_id |-> 1, addressee_id |-> 2, status |-> "accepted"],
                      [id |-> 2, requester_id |-> 3, addressee_id |-> 1, status |-> "accepted"]}
    /\ close_friends = {}
    /\ history = [u \in Users |-> [f \in DOMAIN NoMetrics |-> <<>>]]
    /\ rubbish = [u \in Users |-> 0]
    /\ \E seeds \in {S \in SUBSET SeedInteractions : Recordable(S)} :
          /\ interactions = seeds
          /\ counters = [u \in Users |-> [a \in Actions |->
                Cardinality({i \in seeds : i.recipient_id = u /\ i.action_type = a})]]
    /\ pushes = [u \in Users |-> 0]
    /\ nextId = 8
    /\ pcs = {}
    /\ served = 0
    /\ last = [op |-> "init", user_id |-> 0, args |-> <<>>, fails |-> {},
               result |-> "ok"]

Act ==
    \E sender_id \in {1, 2}, recipient_id \in Users, action \in Actions,
       fails \in {{}, {1}, {2}} :
        sender_id # recipient_id
        /\ PerformSocialAction(sender_id, recipient_id, action, fails)

NextInteract == Wait \/ Act

SpecInteract == InitInteract /\ [][NextInteract]_vars

\* ---- ownership: updates and deletions by the owner, by another user and
\* of a workout that does not exist, over workouts stored earlier
UpdateAny ==
    \E user_id \in {1, 2}, id \in {w.id : w \in workouts} \cup {nextId},
       patch \in VisibilityPatches \cup RichPatches :
        UpdateWorkout(user_id, id, patch, {})
UpdateListsAny ==
    \E user_id \in {1, 2}, w \in workouts : \E patch \in ChildPatches(w) :
        UpdateWorkout(user_id, w.id, patch, {})
DeleteAny ==
    \E user_id \in {1, 2}, id \in {w.id : w \in workouts} \cup {nextId},
       fails \in {{}, {1}} :
        DeleteWorkout(user_id, id, fails)

NextOwner == UpdateAny \/ UpdateListsAny \/ DeleteAny

SpecOwner == InitScheduler /\ [][NextOwner]_vars

\* ---- concurrent ingestion: requests that have loaded the most recent
\* workout interleave with each other, over workouts stored earlier
Lookup ==
    \E log \in {l \in EntryLogs : l.scheduled_date = NoNum /\ l.updated = NoMetrics},
       created_at \in CreatedAtChoices :
        VoiceLookup(1, log, created_at)
Consolidate == \E c \in pcs, fails \in {{}, {1}} : VoiceAppend(c, fails)

NextRace == Tick \/ Lookup \/ Consolidate

SpecRace == InitScheduler /\ [][NextRace]_vars

\* ---- the consolidation target: unscheduled logs over workouts stored
\* earlier, planned ones included
Log ==
    IngestFrom({1}, {l \in EntryLogs : l.scheduled_date = NoNum /\ l.updated = NoMetrics},
               {{}, {1}})
LogOther ==
    IngestFrom({2}, {l \in EntryLogs : /\ l.scheduled_date = NoNum /\ l.updated = NoMetrics
                                       /\ l.cardio = <<>>},
               {{}})

NextLatest == Tick \/ Log \/ LogOther

SpecLatest == InitScheduler /\ [][NextLatest]_vars

\* ---- the social graph: requests in flight interleave with every call
Send == \E r \in Users, a \in Users : r # a /\ SendCheck(r, a)
Insert == \E c \in pcs, fails \in {{}, {1}, {2}} : SendInsert(c, fails)
Respond ==
    \E user_id \in Users, id \in {f.id : f \in friendships} \cup {nextId},
       action \in {"accept", "reject"}, fails \in {{}, {1}, {2}} :
        RespondToFriendRequest(user_id, id, action, fails)
Remove ==
    \E a \in Users, b \in Users, fails \in {{}, {1}} :
        a # b /\ RemoveFriend(a, b, fails)
Toggle ==
    \E o \in Users, f \in Users, is_close \in BOOLEAN, fails \in {{}, {1}} :
        o # f /\ ToggleCloseFriend(o, f, is_close, fails)

NextSocial == Send \/ Insert \/ Respond \/ Remove \/ Toggle

SpecSocial == Init /\ [][NextSocial]_vars

\* ============================================================ properties
\* Vocabulary of the properties.  A step that serves a request records the
\* request in last'; the properties relate the state before the step
\* (unprimed) to the state after it (primed).
WorkoutsOf(ws, u) == {w \in ws : w.user_id = u}
LatestOf(ws, u) ==
    {w \in WorkoutsOf(ws, u) : \A v \in WorkoutsOf(ws, u) : v.created_at <= w.created_at}
LogHasEntries(l) == l.sets # <<>> \/ l.cardio # <<>>
\* the effective timestamp of an unscheduled log received at time t
EffectiveTs(c, t) == IF c.args.created_at # NoNum THEN c.args.created_at ELSE t
GapInWindow(g) == 0 <= g /\ g < 30

IngestedOk(c) == c.op = "manage_voice_log" /\ c.result = "ok"
Unscheduled(c) == c.args.log.scheduled_date = NoNum /\ LogHasEntries(c.args.log)
Scheduled(c) == c.args.log.scheduled_date # NoNum /\ LogHasEntries(c.args.log)

SetRowMatches(r, e) ==
    /\ r.exercise_name = e.exercise_name /\ r.set_number = e.sets
    /\ r.reps = e.reps /\ r.weight = e.weight /\ r.weight_unit = e.weight_unit
CardioRowMatches(r, e) ==
    /\ r.name = e.exercise_name /\ r.duration_minutes = e.duration_minutes
    /\ r.distance = e.distance /\ r.distance_unit = e.distance_unit
    /\ r.speed = e.speed /\ r.pace = e.pace /\ r.pace_unit = e.pace_unit
    /\ r.laps = e.laps

\* the rows newSets and newCardio are exactly the entries of log l, all
\* children of workout wid
HoldsEntries(newSets, newCardio, l, wid) ==
    /\ Cardinality(newSets) = Len(l.sets)
    /\ Cardinality(newCardio) = Len(l.cardio)
    /\ \A r \in newSets : r.workout_id = wid /\ \E i \in 1..Len(l.sets) : SetRowMatches(r, l.sets[i])
    /\ \A i \in 1..Len(l.sets) : \E r \in newSets : SetRowMatches(r, l.sets[i])
    /\ \A r \in newCardio : r.workout_id = wid /\ \E i \in 1..Len(l.cardio) : CardioRowMatches(r, l.cardio[i])
    /\ \A i \in 1..Len(l.cardio) : \E r \in newCardio : CardioRowMatches(r, l.cardio[i])

\* C1: an unscheduled log with entries whose gap to the user's most recent
\* workout is in [0, 30) minutes is appended to that workout: every entry
\* becomes a new child of it, and the user's workouts stay the same in number.
C1_ConsolidatesInWindow ==
    [][ ( /\ IngestedOk(last') /\ Unscheduled(last')
          /\ \E m \in LatestOf(workouts, last'.user_id) :
                GapInWindow(EffectiveTs(last', now) - m.created_at) )
        => /\ {w.id : w \in workouts'} = {w.id : w \in workouts}
           /\ \E m \in LatestOf(workouts, last'.user_id) :
                HoldsEntries(exercise_sets' \ exercise_sets,
                             cardio_sessions' \ cardio_sessions,
                             last'.args.log, m.id)
      ]_vars

\* C1 witness: a log was appended to a workout that was already there and
\* lies in the window
C1_Witness ==
    /\ IngestedOk(last) /\ Unscheduled(last)
    /\ \E m \in WorkoutsOf(workouts, last.user_id) :
         LET n == Len(last.args.log.sets) + Len(last.args.log.cardio)
         IN  /\ m.id < nextId - n
             /\ GapInWindow(EffectiveTs(last, now) - m.created_at)
             /\ \A r \in exercise_sets \cup cardio_sessions :
                  r.id >= nextId - n => r.workout_id = m.id
             /\ Cardinality({r \in exercise_sets \cup cardio_sessions : r.id >= nextId - n}) = n
             /\ Cardinality({r \in exercise_sets \cup cardio_sessions : r.workout_id = m.id}) > n

\* C2: an unscheduled log with entries of a user without workouts, or whose
\* gap to the most recent workout is >= 30 minutes or negative, creates
\* exactly one new workout holding the entries; nothing that existed changes.
C2_NewWorkoutOutsideWindow ==
    [][ ( /\ IngestedOk(last') /\ Unscheduled(last')
          /\ \A m \in LatestOf(workouts, last'.user_id) :
                ~GapInWindow(EffectiveTs(last', now) - m.created_at) )
        => /\ workouts \subseteq workouts'
           /\ exercise_sets \subseteq exercise_sets'
           /\ cardio_sessions \subseteq cardio_sessions'
           /\ \E w \in workouts' :
                /\ workouts' \ workouts = {w}
                /\ w.user_id = last'.user_id
                /\ HoldsEntries(exercise_sets' \ exercise_sets,
                                cardio_sessions' \ cardio_sessions,
                                last'.args.log, w.id)
      ]_vars

\* C2 witness: a log arrived exactly 30 minutes after the user's only other
\* workout and a second workout was created for it
C2_Witness ==
    /\ IngestedOk(last) /\ Unscheduled(last)
    /\ \E m, w \in WorkoutsOf(workouts, last.user_id) :
         /\ m.id < w.id
         /\ w.created_at = EffectiveTs(last, now)
         /\ w.created_at - m.created_at = 30
         /\ \E r \in exercise_sets \cup cardio_sessions : r.workout_id = w.id

\* C3 as stated: a scheduled log with entries gives a workout at noon UTC of
\* the scheduled date with status planned, whatever the current time.
C3_ScheduledAlwaysPlanned ==
    [][ (IngestedOk(last') /\ Scheduled(last'))
        => \E w \in workouts' \ workouts :
              /\ w.created_at = NoonUTC(last'.args.log.scheduled_date)
              /\ w.status = "planned"
      ]_vars

\* C3 amended: the workout is at noon UTC of the scheduled date; its status
\* is planned when that instant is strictly later than the current time and
\* completed otherwise.
C3_ScheduledStatusByClock ==
    [][ (IngestedOk(last') /\ Scheduled(last'))
        => \E w \in workouts' :
              /\ workouts' \ workouts = {w}
              /\ w.created_at = NoonUTC(last'.args.log.scheduled_date)
              /\ w.status = IF NoonUTC(last'.args.log.scheduled_date) > now
                            THEN "planned" ELSE "completed"
      ]_vars

\* C3 witness: a log scheduled for a date whose noon has been reached was
\* stored as a completed workout
C3_Witness ==
    /\ IngestedOk(last) /\ Scheduled(last)
    /\ NoonUTC(last.args.log.scheduled_date) <= now
    /\ \E w \in WorkoutsOf(workouts, last.user_id) :
         /\ \A v \in workouts : v.id <= w.id
         /\ w.created_at = NoonUTC(last.args.log.scheduled_date)
         /\ w.status = "completed"

\* C4: a scheduled log with entries never consolidates and never touches the
\* metric histories or an existing workout; when it succeeds there is exactly
\* one new workout.
C4_ScheduledNeverConsolidates ==
    [][ (last'.op = "manage_voice_log" /\ Scheduled(last'))
        => /\ history' = history
           /\ workouts \subseteq workouts'
           /\ exercise_sets \subseteq exercise_sets'
           /\ cardio_sessions \subseteq cardio_sessions'
           /\ \A r \in (exercise_sets' \ exercise_sets) \cup (cardio_sessions' \ cardio_sessions) :
                 r.workout_id \notin {w.id : w \in workouts}
           /\ IngestedOk(last') => Cardinality(workouts' \ workouts) = 1
      ]_vars

\* C4 witness: a scheduled log carrying metric updates was stored as a new
\* workout although the user's latest workout was inside the 30-minute window
C4_Witness ==
    /\ IngestedOk(last) /\ Scheduled(last)
    /\ last.args.log.updated["weight"] # NoNum
    /\ \E m, w \in WorkoutsOf(workouts, last.user_id) :
         /\ m.id < w.id
         /\ w.created_at = NoonUTC(last.args.log.scheduled_date)
         /\ GapInWindow(w.created_at - m.created_at)
         /\ \A v \in WorkoutsOf(workouts, last.user_id) : v.id < w.id => v.created_at <= m.created_at
         /\ \A v \in WorkoutsOf(workouts, last.user_id) : v.id <= w.id
         /\ history[last.user_id]["weight"] = <<>>

\* ------------------------------------------------------------------ C5
OldVisibility(c) ==
    (CHOOSE w \in workouts : w.id = c.args.workout_id).visibility
Notified == notifications' # notifications \/ pushes' # pushes

\* C5: update_workout notifies only on private -> public and on
\* private -> close_friends; no other pair of old and new visibility notifies.
C5_NotifiesOnlyFromPrivate ==
    [][ (last'.op = "update_workout" /\ Notified)
        => /\ "visibility" \in last'.args.patch.fields
           /\ OldVisibility(last') = "private"
           /\ last'.args.patch.visibility \in {"public", "close_friends"}
      ]_vars

\* ------------------------------------------------------------------ C6
AcceptedBetween(user_a, user_b) ==
    \E f \in friendships :
        /\ f.status = "accepted"
        /\ \/ (f.requester_id = user_a /\ f.addressee_id = user_b)
           \/ (f.requester_id = user_b /\ f.addressee_id = user_a)

\* C6: every close-friend row (owner, friend) has an accepted friendship
\* between owner and friend, whatever sequence of send, respond, remove and
\* toggle calls was served.
C6_CloseFriendsAreFriends ==
    \A c \in close_friends : AcceptedBetween(c[1], c[2])

\* ------------------------------------------------------------------ C7
SamePair(f, g) ==
    {f.requester_id, f.addressee_id} = {g.requester_id, g.addressee_id}

\* C7: there is at most one friendship row per unordered pair of users, also
\* when send_friend_request calls for the pair interleave between their
\* existence check and their insert.
C7_OneRowPerPair ==
    \A f \in friendships, g \in friendships : SamePair(f, g) => f = g

\* ------------------------------------------------------------------ C8
\* C8: an update_workout call that raises leaves no trace: workout rows,
\* children and notification rows are as before the call.
C8_UpdateIsAtomic ==
    [][ (last'.op = "update_workout" /\ last'.result = "raised")
        => /\ workouts' = workouts
           /\ exercise_sets' = exercise_sets
           /\ cardio_sessions' = cardio_sessions
           /\ notifications' = notifications
      ]_vars

\* ------------------------------------------------------------------ C9
Total(f) == f[1] + f[2] + f[3]
\* the call c ran create_notification and a commit inside it failed: the
\* create_notification calls of a request make one push attempt each, and
\* their commits precede the closing commit of the request
NotificationCommitFailed(c) ==
    /\ c.fails # {}
    /\ \A k \in c.fails : k <= Total(pushes') - Total(pushes)

\* C9: when the commit of a notification row fails, nothing is raised, the
\* push is attempted once for the recipient, and the change that triggered
\* the notification is committed: the accepted status of the friendship in
\* respond_to_friend_request, the scalars and the visibility of the workout
\* in update_workout.
C9_NotificationFailureKeepsTrigger ==
    [][ /\ ( /\ last'.op = "respond_to_friend_request"
             /\ last'.args.action = "accept"
             /\ NotificationCommitFailed(last') )
           => \E f \in friendships :
                 /\ f.id = last'.args.friendship_id
                 /\ last'.result = "ok"
                 /\ pushes'[f.requester_id] = pushes[f.requester_id] + 1
                 /\ [f EXCEPT !.status = "accepted"] \in friendships'
        /\ ( /\ last'.op = "update_workout"
             /\ NotificationCommitFailed(last') )
           => \E w \in workouts' :
                 /\ w.id = last'.args.workout_id
                 /\ last'.result = "ok"
                 /\ w.visibility = last'.args.patch.visibility
                 /\ "notes" \in last'.args.patch.fields
                       => w.notes = last'.args.patch.notes
      ]_vars

\* ------------------------------------------------------------------ C10
CreatesWorkout(c) ==
    c.result = "ok" /\ c.op \in {"manage_voice_log", "create_manual_workout"}
\* the rows a step wrote: the rows with a new id of a creating call, the
\* target row of a successful update_workout
WrittenRows(c) ==
    IF CreatesWorkout(c)
    THEN {w \in workouts' : w.id \notin {v.id : v \in workouts}}
    ELSE IF c.op = "update_workout" /\ c.result = "ok"
    THEN {w \in workouts' : w.id = c.args.workout_id}
    ELSE {}

\* C10 as stated: a workout is planned exactly when its timestamp was
\* strictly later than the current time at the create or update call that
\* last wrote it, and only an explicit edit turns planned into completed.
C10_StatusFollowsClock ==
    [][ /\ \A w \in WrittenRows(last') :
              (w.status = "planned") <=> (w.created_at > now)
        /\ \A v \in workouts, w \in workouts' :
              (v.id = w.id /\ v.status = "planned" /\ w.status = "completed")
              => /\ last'.op = "update_workout"
                 /\ "status" \in last'.args.patch.fields
      ]_vars

\* C10 amended: right after its creation a workout is planned exactly when
\* its timestamp is strictly later than the current time; afterwards the
\* status changes only by an update_workout call whose patch carries a
\* status, to that status: an update of the timestamp alone keeps the status.
C10_StatusSetAtCreationOrByEdit ==
    [][ /\ CreatesWorkout(last') =>
              \A w \in WrittenRows(last') :
                  (w.status = "planned") <=> (w.created_at > now)
        /\ \A v \in workouts, w \in workouts' :
              (v.id = w.id /\ v.status # w.status)
              => /\ last'.op = "update_workout"
                 /\ "status" \in last'.args.patch.fields
                 /\ w.status = last'.args.patch.status
      ]_vars

\* C10 witness: an update moved a completed workout into the future and it
\* is still completed
C10_Witness ==
    /\ last.op = "update_workout" /\ last.result = "ok"
    /\ last.args.patch.fields = {"created_at"}
    /\ \E w \in workouts :
         /\ w.id = last.args.workout_id
         /\ w.created_at = last.args.patch.created_at
         /\ w.created_at > now
         /\ w.status = "completed"


\* ------------------------------------------------------------------ C11
\* the entries of a list that carry no id
RECURSIVE WithoutId(_)
WithoutId(entries) ==
    IF entries = <<>> THEN <<>>
    ELSE (IF Head(entries).id = NoNum THEN <<Head(entries)>> ELSE <<>>)
         \o WithoutId(Tail(entries))

\* row r holds the fields of the request entry e
SetHolds(r, e) ==
    /\ r.exercise_name = e.exercise_name /\ r.set_number = e.set_number
    /\ r.reps = e.reps /\ r.weight = e.weight /\ r.weight_unit = e.weight_unit
CardioHolds(r, e) ==
    /\ r.name = e.name /\ r.duration_minutes = e.duration_minutes
    /\ r.speed = e.speed /\ r.pace = e.pace /\ r.pace_unit = e.pace_unit
    /\ r.distance = e.distance /\ r.distance_unit = e.distance_unit
    /\ r.laps = e.laps

\* before and after are one child table around an update of workout wid with
\* the list entries: the children named in the list stay, with the fields of
\* their entry; the entries without id arrive as new rows; the rest is gone
Replaced(before, after, entries, wid, isSet) ==
    LET old == {r \in before : r.workout_id = wid}
        new == {r \in after : r.workout_id = wid}
        named == {entries[i].id : i \in 1..Len(entries)}
        stay == {r \in new : r.id \in {x.id : x \in old}}
        fresh == new \ stay
        added == WithoutId(entries)
        holds(r, e) == IF isSet THEN SetHolds(r, e) ELSE CardioHolds(r, e)
    IN  /\ {r.id : r \in stay} = {x.id : x \in old} \cap named
        /\ \A r \in stay : \E i \in 1..Len(entries) :
              entries[i].id = r.id /\ holds(r, entries[i])
        /\ Cardinality(fresh) = Len(added)
        /\ \A r \in fresh : r.id >= nextId /\ \E i \in 1..Len(added) : holds(r, added[i])
        /\ \A i \in 1..Len(added) : \E r \in fresh : holds(r, added[i])
        /\ {r \in after : r.workout_id # wid} = {r \in before : r.workout_id # wid}

\* C11: after a successful update_workout with a list of sets (of cardio
\* sessions), even an empty one, the children of the workout are the stored
\* children named in the list, with the fields of their entry, and one new
\* child for every entry without id; the other stored children are deleted.
\* Without the list the child table is unchanged.
C11_ChildrenReplacedByList ==
    [][ (last'.op = "update_workout" /\ last'.result = "ok")
        => LET patch == last'.args.patch
               wid == last'.args.workout_id
           IN  /\ IF patch.has_sets
                  THEN Replaced(exercise_sets, exercise_sets', patch.sets, wid, TRUE)
                  ELSE exercise_sets' = exercise_sets
               /\ IF patch.has_cardio
                  THEN Replaced(cardio_sessions, cardio_sessions',
                                patch.cardio_sessions, wid, FALSE)
                  ELSE cardio_sessions' = cardio_sessions
      ]_vars

\* C11 witness: a list that names one of two stored sets and adds a set
\* left the named set edited, the other gone and one new set
C11_Witness ==
    /\ last.op = "update_workout" /\ last.result = "ok"
    /\ last.args.patch.has_sets
    /\ Len(last.args.patch.sets) = 2
    /\ last.args.patch.sets[1].id # NoNum
    /\ last.args.patch.sets[2].id = NoNum
    /\ \E r \in exercise_sets :
          /\ r.id = last.args.patch.sets[1].id
          /\ r.workout_id = last.args.workout_id
          /\ SetHolds(r, last.args.patch.sets[1])
    /\ Cardinality({r \in exercise_sets : r.workout_id = last.args.workout_id}) = 2
    /\ cardio_sessions # {}


\* ------------------------------------------------------------------ C12
FriendsOf(user_id) ==
    {u \in Users : AcceptedBetween(user_id, u)}
CloseFriendsOf(user_id) ==
    {cf[2] : cf \in {x \in close_friends : x[1] = user_id}}

\* the step added one WORKOUT_SHARE row about workout wid, sent by owner, for
\* every member of audience, and no other notification row
SharedWith(audience, owner, wid) ==
    LET added == notifications' \ notifications
    IN  /\ \A n \in added :
              /\ n.type = "WORKOUT_SHARE" /\ n.sender_id = owner
              /\ n.reference_id = wid /\ n.recipient_id \in audience
        /\ \A u \in audience : Cardinality({n \in added : n.recipient_id = u}) = 1
        /\ notifications \subseteq notifications'

\* an update_workout of the owner in which every commit succeeded and that
\* took the workout from visibility old to visibility new
Republished(c, old, new) ==
    /\ c.op = "update_workout" /\ c.result = "ok" /\ c.fails = {}
    /\ "visibility" \in c.args.patch.fields
    /\ OldVisibility(c) = old
    /\ c.args.patch.visibility = new

\* C12: private -> public gives every accepted friend of the owner exactly
\* one WORKOUT_SHARE notification and nobody else any; private ->
\* close_friends gives exactly the owner's close friends one each.
C12_ShareAudience ==
    [][ /\ Republished(last', "private", "public")
           => SharedWith(FriendsOf(last'.user_id), last'.user_id,
                         last'.args.workout_id)
        /\ Republished(last', "private", "close_friends")
           => SharedWith(CloseFriendsOf(last'.user_id), last'.user_id,
                         last'.args.workout_id)
      ]_vars

\* C12 witness: a private workout went public while its owner had one
\* accepted friend and one pending request; the accepted friend alone holds
\* a notification
C12_Witness ==
    /\ last.op = "update_workout" /\ last.result = "ok" /\ last.fails = {}
    /\ last.args.patch.fields = {"visibility"}
    /\ last.args.patch.visibility = "public"
    /\ \E w \in workouts : w.id = last.args.workout_id /\ w.visibility = "public"
    /\ FriendsOf(last.user_id) = {2}
    /\ \E f \in friendships : f.status = "pending"
    /\ {n.recipient_id : n \in {x \in notifications :
            x.reference_id = last.args.workout_id}} = {2}
    /\ Cardinality(notifications) = 1


\* ------------------------------------------------------------------ C13
FreshWorkouts == {w \in workouts' : w.id \notin {v.id : v \in workouts}}

Audience(visibility, user_id) ==
    IF visibility = "public" THEN FriendsOf(user_id)
    ELSE IF visibility = "close_friends" THEN CloseFriendsOf(user_id)
    ELSE {}

\* C13: an ingestion that creates a workout notifies by the visibility of the
\* log: public every accepted friend of the owner once, close_friends every
\* close friend of the owner once, private nobody; an ingestion that
\* consolidates into a stored workout creates no notification.
C13_FanOutOnlyOnCreation ==
    [][ (last'.op = "manage_voice_log" /\ last'.result = "ok" /\ last'.fails = {})
        => IF FreshWorkouts = {}
           THEN notifications' = notifications
           ELSE \E w \in FreshWorkouts :
                   /\ FreshWorkouts = {w}
                   /\ SharedWith(Audience(last'.args.log.visibility, last'.user_id),
                                 last'.user_id, w.id)
      ]_vars

\* C13 witness: a public log was consolidated into the private workout of an
\* owner with friends, and there is no notification
C13_Witness ==
    /\ last.op = "manage_voice_log" /\ last.result = "ok"
    /\ last.args.log.visibility = "public"
    /\ FriendsOf(last.user_id) # {}
    /\ notifications = {}
    /\ \E w \in workouts :
          /\ workouts = {w}
          /\ w.visibility = "private"
          /\ Cardinality({r \in exercise_sets : r.workout_id = w.id}) = 3
          /\ cardio_sessions # {}


\* ------------------------------------------------------------------ C14
\* what get_friendship_status(user_a, user_b) can return on the friendship
\* table rows
StatusesIn(rows, user_a, user_b) ==
    LET db == [friendships |-> rows]
    IN  {get_friendship_status(sent, received) :
            sent \in FirstOf(Directed(db, user_a, user_b)),
            received \in FirstOf(Directed(db, user_b, user_a))}

\* the row a successful respond_to_friend_request acted on
Answered(c) == CHOOSE f \in friendships : f.id = c.args.friendship_id

\* a respond_to_friend_request by the addressee, every commit succeeding, on
\* the one row between the two users
Responds(c, action) ==
    /\ c.op = "respond_to_friend_request" /\ c.result = "ok" /\ c.fails = {}
    /\ c.args.action = action
    /\ \A g \in friendships : SamePair(g, Answered(c)) => g = Answered(c)

\* C14: after the addressee b accepts the request of a, the status is
\* accepted seen from a and seen from b, and a got exactly one FRIEND_ACCEPT
\* notification; after a reject the row is deleted and both see none.
C14_ResponseIsSymmetric ==
    [][ /\ Responds(last', "accept") =>
            LET f == Answered(last')
                a == f.requester_id
                b == f.addressee_id
            IN  /\ StatusesIn(friendships', a, b) = {"accepted"}
                /\ StatusesIn(friendships', b, a) = {"accepted"}
                /\ \E n \in notifications' :
                      /\ notifications' = notifications \cup {n}
                      /\ n \notin notifications
                      /\ n.type = "FRIEND_ACCEPT" /\ n.recipient_id = a
                      /\ n.sender_id = b /\ n.reference_id = f.id
        /\ Responds(last', "reject") =>
            LET f == Answered(last')
            IN  /\ friendships' = friendships \ {f}
                /\ StatusesIn(friendships', f.requester_id, f.addressee_id) = {"none"}
                /\ StatusesIn(friendships', f.addressee_id, f.requester_id) = {"none"}
                /\ notifications' = notifications
      ]_vars

\* C14 witness: a request that was sent and then accepted by its addressee;
\* the requester holds the one FRIEND_ACCEPT notification about it
C14_Witness ==
    /\ last.op = "respond_to_friend_request" /\ last.result = "ok"
    /\ last.args.action = "accept"
    /\ \E f \in friendships :
          /\ f.id = last.args.friendship_id /\ f.status = "accepted"
          /\ f.addressee_id = last.user_id
          /\ \E n \in notifications :
                n.type = "FRIEND_REQUEST" /\ n.reference_id = f.id
          /\ Cardinality({n \in notifications :
                n.type = "FRIEND_ACCEPT" /\ n.reference_id = f.id
                /\ n.recipient_id = f.requester_id}) = 1


\* ------------------------------------------------------------------ C15
\* the call names no row, or a row addressed to somebody else
NotTheAddressee(c) ==
    \A f \in friendships :
        f.id = c.args.friendship_id => f.addressee_id # c.user_id

\* C15: respond_to_friend_request by a user who is not the addressee of the
\* row, or with an id of no row, returns null, reaches no commit, and leaves
\* friendships, close friends and notifications as they were.
C15_OnlyAddresseeResponds ==
    [][ (last'.op = "respond_to_friend_request" /\ NotTheAddressee(last'))
        => /\ last'.result = "none"
           /\ last'.fails = {}
           /\ friendships' = friendships
           /\ close_friends' = close_friends
           /\ notifications' = notifications
           /\ pushes' = pushes
      ]_vars

\* C15 witness: the requester tried to accept the own pending request, which
\* is still pending
C15_Witness ==
    /\ last.op = "respond_to_friend_request" /\ last.result = "none"
    /\ last.args.action = "accept"
    /\ \E f \in friendships :
          /\ f.id = last.args.friendship_id
          /\ f.requester_id = last.user_id
          /\ f.status = "pending"


\* ------------------------------------------------------------------ C16
\* the friendship rows between the two users of the send_friend_request c
RowsOfPair(c) ==
    {f \in friendships :
        {f.requester_id, f.addressee_id} = {c.user_id, c.args.addressee_id}}

\* the step is the existence check of a send_friend_request call
SendChecks(c) ==
    \/ c.op = "send_friend_request_check"
    \/ c.op = "send_friend_request" /\ pcs' = pcs
\* the step is the completion of a call whose check found no row
SendCompletes(c) ==
    c.op = "send_friend_request" /\ pcs' # pcs

\* C16: send_friend_request with a row between the two users, in either
\* direction and of any status, returns it and changes nothing; otherwise it
\* goes on to create exactly one pending row requester -> addressee and one
\* FRIEND_REQUEST notification for the addressee.
C16_SendIsIdempotent ==
    [][ /\ SendChecks(last') =>
            /\ friendships' = friendships
            /\ notifications' = notifications
            /\ pushes' = pushes
            /\ IF RowsOfPair(last') # {}
               THEN last'.result = "existing" /\ pcs' = pcs
               ELSE last'.op = "send_friend_request_check"
                    /\ \E c \in pcs' \ pcs :
                          /\ c.requester_id = last'.user_id
                          /\ c.addressee_id = last'.args.addressee_id
        /\ (SendCompletes(last') /\ last'.result = "ok" /\ last'.fails = {}) =>
            \E f \in friendships', n \in notifications' :
                /\ f \notin friendships /\ friendships' = friendships \cup {f}
                /\ f.requester_id = last'.user_id
                /\ f.addressee_id = last'.args.addressee_id
                /\ f.status = "pending"
                /\ n \notin notifications /\ notifications' = notifications \cup {n}
                /\ n.type = "FRIEND_REQUEST" /\ n.recipient_id = f.addressee_id
                /\ n.sender_id = f.requester_id /\ n.reference_id = f.id
      ]_vars

\* C16 witness: a request was sent, and the addressee's own request to the
\* sender then returned the pending row without adding anything
C16_Witness ==
    /\ last.op = "send_friend_request" /\ last.result = "existing"
    /\ \E f \in friendships :
          /\ f.status = "pending"
          /\ f.requester_id = last.args.addressee_id
          /\ f.addressee_id = last.user_id
          /\ \A g \in friendships : SamePair(f, g) => f = g
          /\ Cardinality({n \in notifications : n.type = "FRIEND_REQUEST"}) = 1


\* ------------------------------------------------------------------ C17
\* the accepted rows between the two users of the remove_friend call c
AcceptedRows(c) ==
    {f \in friendships :
        /\ f.status = "accepted"
        /\ {f.requester_id, f.addressee_id} = {c.user_id, c.args.user_b}}

\* C17: remove_friend(a, b) on an accepted friendship deletes that row and
\* the close-friend rows (a, b) and (b, a), changes no other row and returns
\* true; without an accepted friendship it returns false and changes nothing.
C17_RemoveFriendFrame ==
    [][ (last'.op = "remove_friend" /\ last'.fails = {})
        => LET a == last'.user_id
               b == last'.args.user_b
           IN  /\ notifications' = notifications
               /\ pushes' = pushes
               /\ workouts' = workouts
               /\ IF AcceptedRows(last') # {}
                  THEN /\ last'.result = "ok"
                       /\ \E f \in AcceptedRows(last') :
                             friendships' = friendships \ {f}
                       /\ close_friends' = close_friends \ {<<a, b>>, <<b, a>>}
                  ELSE /\ last'.result = "none"
                       /\ friendships' = friendships
                       /\ close_friends' = close_friends
      ]_vars

\* C17 witness: the friend removed the owner of a close-friend link; the
\* friendship and the link are gone, the owner's other friendship is kept
C17_Witness ==
    /\ last.op = "remove_friend" /\ last.result = "ok"
    /\ last.user_id = 2 /\ last.args.user_b = 1
    /\ close_friends = {}
    /\ friendships = {[id |-> 2, requester_id |-> 3, addressee_id |-> 1,
                       status |-> "accepted"]}


\* ------------------------------------------------------------------ C18
\* C18: toggle_close_friend raises and changes nothing when
\* get_friendship_status(owner, friend) is not accepted; when it is accepted,
\* adding leaves exactly the row (owner, friend) added, also when it was
\* there, removing leaves it absent, also when it was absent, and no other
\* row, the reverse row (friend, owner) included, is created or removed.
C18_ToggleCloseFriend ==
    [][ (last'.op = "toggle_close_friend" /\ last'.fails = {})
        => LET o == last'.user_id
               f == last'.args.friend_id
               status == StatusesIn(friendships, o, f)
           IN  /\ friendships' = friendships
               /\ notifications' = notifications
               /\ "accepted" \notin status
                    => last'.result = "raised" /\ close_friends' = close_friends
               /\ status = {"accepted"}
                    => /\ last'.result = "ok"
                       /\ close_friends' =
                            IF last'.args.is_close
                            THEN close_friends \cup {<<o, f>>}
                            ELSE close_friends \ {<<o, f>>}
      ]_vars

\* C18, the idempotent add: the owner added a friend who already was a close friend;
\* the one link is there and the reverse link is not
C18_WitnessAddedTwice ==
    /\ last.op = "toggle_close_friend" /\ last.result = "ok"
    /\ last.args.is_close
    /\ served = 1
    /\ close_friends = {<<last.user_id, last.args.friend_id>>}
    /\ AcceptedBetween(last.user_id, last.args.friend_id)

\* C18 witness: the addressee of a pending request tried to
\* make the requester a close friend
C18_Witness ==
    /\ last.op = "toggle_close_friend" /\ last.result = "raised"
    /\ last.args.is_close
    /\ \E f \in friendships :
          /\ f.status = "pending"
          /\ f.addressee_id = last.user_id
          /\ f.requester_id = last.args.friend_id
    /\ <<last.user_id, last.args.friend_id>> \notin close_friends


\* ------------------------------------------------------------------ C19
\* the step appended the entries of a log to the stored workout m
ConsolidatedInto(c, m) ==
    /\ IngestedOk(c) /\ FreshWorkouts = {}
    /\ \E r \in (exercise_sets' \ exercise_sets) \cup (cardio_sessions' \ cardio_sessions) :
          r.workout_id = m.id
NotesAfter(m) == (CHOOSE w \in workouts' : w.id = m.id).notes

\* C19 as stated: after a consolidation the note of the workout is old_note,
\* the marker "\n\n[Update]: " and new_note when old_note is not empty, and
\* new_note when the workout had no note.
C19_MergedNote ==
    [][ \A m \in workouts :
          ConsolidatedInto(last', m)
          => NotesAfter(m) =
                IF m.notes # <<>>
                THEN m.notes \o <<"\n\n[Update]: ">> \o last'.args.log.note
                ELSE last'.args.log.note
      ]_vars

\* C19 amended: that holds for a log that carries a note; a log without a
\* note leaves the note of the workout as it was, without marker.
C19_MergedNoteWhenGiven ==
    [][ \A m \in workouts :
          ConsolidatedInto(last', m)
          => NotesAfter(m) =
                IF last'.args.log.note = <<>> THEN m.notes
                ELSE IF m.notes # <<>>
                THEN m.notes \o <<"\n\n[Update]: ">> \o last'.args.log.note
                ELSE last'.args.log.note
      ]_vars

\* C19 witness: a log with note n3 was appended to the workout with note n1
C19_Witness ==
    /\ IngestedOk(last)
    /\ last.args.log.note = <<"n3">>
    /\ \E w \in workouts :
          /\ workouts = {w}
          /\ w.notes = <<"n1", "\n\n[Update]: ", "n3">>
          /\ cardio_sessions # {} /\ exercise_sets # {}


\* ------------------------------------------------------------------ C20
\* an unscheduled log whose timestamp, given by the client, is later than the
\* current time
FutureUnscheduled(c) ==
    /\ IngestedOk(c)
    /\ c.args.log.scheduled_date = NoNum
    /\ c.args.created_at # NoNum
    /\ c.args.created_at > now

MetricAppended(c, f) ==
    LET v == c.args.log.updated[f]
        old == history[c.user_id][f]
    IN  history'[c.user_id][f] =
            IF v # NoNum /\ v # 0
            THEN Append(old, [date |-> c.args.created_at \div 1440, value |-> v])
            ELSE old

IsPrefix(a, b) == Len(a) <= Len(b) /\ \A i \in 1..Len(a) : a[i] = b[i]

UnscheduledCall(c) ==
    c.op = "manage_voice_log" /\ c.args.log.scheduled_date = NoNum

\* the history of field f of the caller afterwards is the old one followed by
\* one entry {date of the effective timestamp, value of the log}
GrewByOne(c, f) ==
    history'[c.user_id][f] =
        Append(history[c.user_id][f],
               [date |-> EffectiveTs(c, now) \div 1440, value |-> c.args.log.updated[f]])

AutoCompleteRun(c) == c.op = "auto_complete_planned_workouts"

\* C22: a run of the auto-complete job whose commit succeeds sets to
\* completed every workout that is planned and dated today; every other
\* workout keeps all its fields (a planned workout of another day stays
\* planned), the fields other than status of every workout are kept, no
\* workout appears or disappears, and children, notifications and every
\* other table are unchanged.  A run whose commit fails changes nothing.
C22_AutoCompleteFrame ==
    [][ AutoCompleteRun(last')
        => /\ {w.id : w \in workouts'} = {w.id : w \in workouts}
           /\ Cardinality(workouts') = Cardinality(workouts)
           /\ \A w \in workouts :
                 IF /\ w.status = "planned"
                    /\ w.created_at \div 1440 = now \div 1440
                    /\ last'.fails = {}
                 THEN [w EXCEPT !.status = "completed"] \in workouts'
                 ELSE w \in workouts'
           /\ UNCHANGED <<exercise_sets, cardio_sessions, notifications,
                          friendships, close_friends, history, rubbish, pushes>>
      ]_vars

\* C22 witness: the job ran on day 1 and found a workout to complete, and a
\* workout planned for day 0 is still planned
C22_Witness ==
    /\ AutoCompleteRun(last) /\ last.fails = {}
    /\ last.args.found >= 1
    /\ \E v \in workouts :
          v.status = "completed" /\ v.created_at \div 1440 = now \div 1440
    /\ \E w \in workouts :
          w.status = "planned" /\ w.created_at \div 1440 < now \div 1440

\* ------------------------------------------------------------------ C23
\* rows of sender and action type kind whose timestamp lies in [t - span, t]
InWindow(rows, sender, kind, t, span) ==
    {i \in rows : /\ i.sender_id = sender /\ i.action_type = kind
                  /\ t - span <= i.created_at /\ i.created_at <= t}

\* the limits over every trailing window: a window is fullest when it ends
\* at the timestamp of a row, so these windows and the one ending now decide
RateLimitsHold ==
    \A t \in {i.created_at : i \in interactions} \cup {now} :
      \A i \in interactions :
        /\ Cardinality(InWindow(interactions, i.sender_id, i.action_type, t, 7 * 1440)) <= 3
        /\ Cardinality({j \in InWindow(interactions, i.sender_id, i.action_type, t, 1440) :
                           j.recipient_id = i.recipient_id}) <= 1

\* the call made by this step would exceed a limit
OverLimit(c) ==
    \/ Cardinality(InWindow(interactions, c.user_id, c.args.action, now, 7 * 1440)) >= 3
    \/ \E j \in InWindow(interactions, c.user_id, c.args.action, now, 1440) :
          j.recipient_id = c.args.recipient_id

\* C23: after any sequence of perform_social_action calls every sender has,
\* per action type, at most 3 interactions in any trailing 7 days and at
\* most 1 to the same recipient in any trailing 24 hours; a call that would
\* exceed a limit is refused with a validation error and records nothing, and
\* a call within the limits whose commits succeed records one interaction,
\* one counter increment and one notification.
C23_RateLimits ==
    /\ []RateLimitsHold
    /\ [][ last'.op = "perform_social_action"
           => /\ OverLimit(last') <=> last'.result = "refused"
              /\ OverLimit(last')
                   => UNCHANGED <<interactions, counters, notifications, pushes,
                                  workouts, friendships, close_friends>>
              /\ (~OverLimit(last') /\ last'.fails = {})
                   => /\ \E i \in interactions' :
                            /\ interactions' \ interactions = {i}
                            /\ interactions \subseteq interactions'
                            /\ i.sender_id = last'.user_id
                            /\ i.recipient_id = last'.args.recipient_id
                            /\ i.action_type = last'.args.action
                            /\ i.created_at = now
                      /\ counters' = [counters EXCEPT
                              ![last'.args.recipient_id][last'.args.action] = @ + 1]
                      /\ Cardinality(notifications' \ notifications) = 1
         ]_vars

\* C23 witness: a nudge was refused after an earlier call had recorded the
\* sender's third nudge of the week
C23_Witness ==
    /\ last.op = "perform_social_action" /\ last.result = "refused"
    /\ last.args.action = "nudge"
    /\ Cardinality(InWindow(interactions, last.user_id, "nudge", now, 7 * 1440)) = 3
    /\ \A j \in InWindow(interactions, last.user_id, "nudge", now, 1440) :
          j.recipient_id # last.args.recipient_id
    /\ \E i \in interactions :
          i.sender_id = last.user_id /\ i.action_type = "nudge" /\ i.id >= 8

\* ------------------------------------------------------------------ C24
\* the timestamp a creating call works with: the one the caller gave, noon
\* UTC of the scheduled date of a scheduled log, else the current time
GivenTimestamp(c) ==
    IF c.op = "create_manual_workout"
    THEN (IF c.args.workout_data.created_at # NoNum
          THEN c.args.workout_data.created_at ELSE now)
    ELSE IF c.args.log.scheduled_date # NoNum
    THEN c.args.log.scheduled_date * 1440 + 720
    ELSE IF c.args.created_at # NoNum THEN c.args.created_at ELSE now

\* C24: every workout stored by create_manual_workout or by
\* create_workout_from_log carries exactly the timestamp of the call
\* (caller-supplied, else the current time) and has status planned when that
\* timestamp is strictly later than the current time and completed otherwise;
\* a successful create_manual_workout stores exactly one workout.
C24_StatusAtCreation ==
    [][ last'.op \in {"manage_voice_log", "create_manual_workout"}
        => /\ \A w \in FreshWorkouts :
                 /\ w.created_at = GivenTimestamp(last')
                 /\ w.status = IF GivenTimestamp(last') > now
                               THEN "planned" ELSE "completed"
                 /\ w.user_id = last'.user_id
           /\ (last'.op = "create_manual_workout" /\ last'.result = "ok")
                 => Cardinality(FreshWorkouts) = 1
      ]_vars

\* C24 witness: a workout created by hand with a timestamp later than the
\* current time is stored with that timestamp as planned
C24_Witness ==
    /\ last.op = "create_manual_workout" /\ last.result = "ok"
    /\ last.args.workout_data.created_at > now
    /\ \E w \in workouts :
          /\ w.notes = last.args.workout_data.notes
          /\ w.created_at = last.args.workout_data.created_at
          /\ w.status = "planned"
          /\ \A v \in workouts : v.id <= w.id

\* ------------------------------------------------------------------ C25
\* the call names a workout that does not exist or belongs to another user
NotOwned(c) ==
    /\ c.op \in {"update_workout", "delete_workout"}
    /\ ~\E w \in workouts : w.id = c.args.workout_id /\ w.user_id = c.user_id

\* C25: update_workout and delete_workout called with a workout id that does
\* not exist or belongs to another user return null and change nothing: no
\* workout, child, notification or push of any user is created, modified
\* or deleted.
C25_ForeignIdChangesNothing ==
    [][ NotOwned(last')
        => /\ last'.result = "none"
           /\ UNCHANGED <<workouts, exercise_sets, cardio_sessions,
                          notifications, pushes, friendships, close_friends,
                          history, nextId>>
      ]_vars

\* C25 witness: a user asked to replace the sets of another user's workout
\* by a list that names none of them; the workout still has its set
C25_Witness ==
    /\ last.op = "update_workout" /\ last.result = "none"
    /\ last.args.patch.has_sets /\ last.args.patch.sets = <<>>
    /\ \E w \in workouts :
          /\ w.id = last.args.workout_id /\ w.user_id # last.user_id
          /\ \E r \in exercise_sets : r.workout_id = w.id

\* a user asked to delete another user's workout; it is still stored
C25_WitnessDelete ==
    /\ last.op = "delete_workout" /\ last.result = "none"
    /\ \E w \in workouts :
          /\ w.id = last.args.workout_id /\ w.user_id # last.user_id
          /\ \E r \in exercise_sets : r.workout_id = w.id

\* ------------------------------------------------------------------ C26
Contains(notes, note) ==
    \E i \in 1..(Len(notes) - Len(note) + 1) :
        SubSeq(notes, i, i + Len(note) - 1) = note

\* all entries of log l are children of workout wid
EntriesStored(l, wid) ==
    /\ \A i \in 1..Len(l.sets) :
          \E r \in exercise_sets : r.workout_id = wid /\ SetRowMatches(r, l.sets[i])
    /\ \A i \in 1..Len(l.cardio) :
          \E r \in cardio_sessions : r.workout_id = wid /\ CardioRowMatches(r, l.cardio[i])

\* two requests that loaded the same most recent workout and both returned
Raced(c, d) ==
    /\ c # d /\ c.user_id = d.user_id /\ c.loaded = d.loaded
    /\ c.done /\ d.done /\ c.result = "ok" /\ d.result = "ok"

\* C26: when two manage_voice_log calls of a user with unscheduled logs both
\* read the same most recent workout inside the window, then after both have
\* completed that workout holds every set and cardio entry of both logs, its
\* notes contain the notes of both logs, and no workout was added.
C26_NoAppendLost ==
    \A c \in pcs, d \in pcs :
        Raced(c, d)
        => /\ EntriesStored(c.log, c.loaded.id) /\ EntriesStored(d.log, c.loaded.id)
           /\ \E w \in workouts :
                 /\ w.id = c.loaded.id
                 /\ Contains(w.notes, c.log.note) /\ Contains(w.notes, d.log.note)
           /\ {w.id : w \in workouts} \subseteq {w.id : w \in SeedWorkouts}

\* ------------------------------------------------------------------ C27
\* the store after both jobs have run once today, every commit succeeding:
\* the reminder job first, and the auto-complete job first
RemindThenComplete == auto_complete_planned_workouts(check_scheduled_workouts(Begin({}))).comm
CompleteThenRemind == check_scheduled_workouts(auto_complete_planned_workouts(Begin({}))).comm

\* the reminders a store holds beyond the present ones: <<owner, workout>>
RemindersIn(db) ==
    {<<n.recipient_id, n.reference_id>> :
        n \in {m \in db.notifications \ notifications : m.type = "REMINDER"}}
StatusesOf(db) == {<<w.id, w.status>> : w \in db.workouts}
DueToday == {w \in workouts : w.status = "planned" /\ w.created_at \div 1440 = now \div 1440}

\* C27 as stated: running the reminder job and the auto-complete job once
\* each on a day gives the same REMINDER notifications and the same final
\* statuses whichever of the two runs first.
C27_OrderIndependent ==
    /\ RemindersIn(RemindThenComplete) = RemindersIn(CompleteThenRemind)
    /\ StatusesOf(RemindThenComplete) = StatusesOf(CompleteThenRemind)

\* C27 amended: the final statuses are the same in both orders, the
\* reminders are not: the reminder job notifies the owners of the workouts
\* that are planned and dated today when it runs, one reminder each, so it
\* sends them all when it runs first and none when auto-complete ran first.
C27_StatusesOrderIndependent ==
    /\ [](/\ StatusesOf(RemindThenComplete) = StatusesOf(CompleteThenRemind)
          /\ RemindersIn(RemindThenComplete) = {<<w.user_id, w.id>> : w \in DueToday}
          /\ RemindersIn(CompleteThenRemind) = {})
    /\ [][ (last'.op = "check_scheduled_workouts" /\ last'.fails = {})
           => /\ workouts' = workouts
              /\ notifications \subseteq notifications'
              /\ Cardinality(notifications' \ notifications) = Cardinality(DueToday)
              /\ {<<n.recipient_id, n.reference_id, n.type>> : n \in notifications' \ notifications}
                    = {<<w.user_id, w.id, "REMINDER">> : w \in DueToday}
         ]_vars

\* C27 witness: the reminder job ran after the auto-complete job had
\* completed today's planned workout, and no reminder was stored
C27_Witness ==
    /\ last.op = "check_scheduled_workouts" /\ last.fails = {}
    /\ last.args.found = 0
    /\ notifications = {}
    /\ \E w \in workouts :
          /\ w.status = "completed"
          /\ w.created_at \div 1440 = now \div 1440
          /\ w.created_at > now

\* ------------------------------------------------------------------ C28
\* C28: a manage_voice_log call is one transaction: when a step of it raises
\* (a metric append, the creation of the parent workout, the creation of the
\* children, the consolidation commit), nothing the call did before remains
\* persisted: metric histories, workouts, children and notifications are as
\* they were before the call.
C28_IngestionIsAtomic ==
    [][ (last'.op = "manage_voice_log" /\ last'.result = "raised")
        => UNCHANGED <<history, workouts, exercise_sets, cardio_sessions,
                       notifications>>
      ]_vars

\* ------------------------------------------------------------------ C29
\* the user of the call has a workout stamped later than the log
HasLaterWorkout(c) ==
    \E v \in workouts : v.user_id = c.user_id /\ v.created_at > EffectiveTs(c, now)

\* C29: the consolidation target is always a workout of the user with the
\* largest timestamp, whatever its status; when the user has a workout stamped
\* later than the log (a planned one, say), an unscheduled log with entries
\* creates a new workout holding its entries, also when another workout of
\* the user lies within [0, 30) minutes before the log.
C29_TargetIsLatest ==
    [][ (IngestedOk(last') /\ Unscheduled(last'))
        => /\ HasLaterWorkout(last')
                => /\ workouts \subseteq workouts'
                   /\ exercise_sets \subseteq exercise_sets'
                   /\ cardio_sessions \subseteq cardio_sessions'
                   /\ \E w \in FreshWorkouts :
                         /\ FreshWorkouts = {w}
                         /\ w.created_at = EffectiveTs(last', now)
                         /\ HoldsEntries(exercise_sets' \ exercise_sets,
                                         cardio_sessions' \ cardio_sessions,
                                         last'.args.log, w.id)
           /\ FreshWorkouts = {}
                => \E m \in workouts :
                      /\ m.user_id = last'.user_id
                      /\ \A v \in workouts :
                            v.user_id = last'.user_id => v.created_at <= m.created_at
                      /\ \A r \in (exercise_sets' \ exercise_sets)
                                    \cup (cardio_sessions' \ cardio_sessions) :
                            r.workout_id = m.id
      ]_vars

\* C29 witness: the user has a planned workout stamped later than the log
\* and a workout stamped less than 30 minutes before it, and the log was
\* stored as a new workout
C29_Witness ==
    /\ IngestedOk(last) /\ Unscheduled(last)
    /\ \E p \in workouts, o \in workouts, w \in workouts :
          /\ p.user_id = last.user_id /\ o.user_id = last.user_id
          /\ w.user_id = last.user_id
          /\ p.status = "planned" /\ p.created_at > w.created_at
          /\ o.id # w.id /\ GapInWindow(w.created_at - o.created_at)
          /\ w.created_at = EffectiveTs(last, now)
          /\ \A v \in workouts : v.id <= w.id
          /\ p.id < w.id /\ o.id < w.id
          /\ \E r \in exercise_sets \cup cardio_sessions : r.workout_id = w.id /\ r.id > w.id

\* ------------------------------------------------------------------ C30
\* the step served an ingestion that created no workout
NoWorkoutCreated(c) ==
    /\ c.op = "manage_voice_log" /\ LogHasEntries(c.args.log)
    /\ {w.id : w \in workouts'} \subseteq {w.id : w \in workouts}

\* C30: consolidation only adds: an ingestion that consolidates leaves the
\* owner, timestamp, status, visibility and workout type of the target, and
\* every field but the notes of at most one workout, which belongs to the
\* caller; every set and cardio session that existed is unchanged, the new
\* ones are children of that workout, and no workout of another user and no
\* child of it is touched.
C30_ConsolidationOnlyAdds ==
    [][ NoWorkoutCreated(last')
        => /\ Cardinality(workouts') = Cardinality(workouts)
           /\ \A w \in workouts :
                 \E w2 \in workouts' :
                    /\ w2.id = w.id
                    /\ w2.user_id = w.user_id /\ w2.created_at = w.created_at
                    /\ w2.status = w.status /\ w2.visibility = w.visibility
                    /\ w2.workout_type = w.workout_type
                    /\ w.user_id # last'.user_id => w2 = w
           /\ Cardinality(workouts' \ workouts) <= 1
           /\ exercise_sets \subseteq exercise_sets'
           /\ cardio_sessions \subseteq cardio_sessions'
           /\ \A r \in (exercise_sets' \ exercise_sets)
                         \cup (cardio_sessions' \ cardio_sessions) :
                 \E m \in workouts :
                    /\ m.id = r.workout_id /\ m.user_id = last'.user_id
                    /\ workouts' \ workouts \subseteq
                          {[m EXCEPT !.notes = n] : n \in {w.notes : w \in workouts'}}
      ]_vars

\* C30 witness: a log was appended to a planned private workout of the
\* caller: the workout is still planned, its notes grew, the set it had is
\* stored as before next to the new children, and another user's workout
\* is stored too
C30_Witness ==
    /\ IngestedOk(last) /\ Unscheduled(last)
    /\ last.args.log.note # <<>>
    /\ SeedSets \subseteq exercise_sets
    /\ \E m \in workouts :
          /\ m.user_id = last.user_id
          /\ m.status = "planned" /\ m.visibility = "private"
          /\ m.notes = <<"n1", "\n\n[Update]: ">> \o last.args.log.note
          /\ \E r \in SeedSets : r.workout_id = m.id
          /\ \E r \in (exercise_sets \cup cardio_sessions) \ SeedSets : r.workout_id = m.id
    /\ \E v \in workouts : v.user_id # last.user_id

====
